---- MODULE Spec2Model ----
(***************************************************************************)
(* Route synthesis engine of the crowd-aware route recommender: the road   *)
(* graph, A* path search, the geometry resolution pipeline and the route   *)
(* assembler (generateRoutes).                                             *)
(*                                                                         *)
(* Units.  Coordinates are integers in micro-degrees (1e-6 degree), so the *)
(* four-decimal coordinates of the source are exact.  Lengths of the road  *)
(* graph are integers in centimetres (2.5 km = 250000).  A heuristic       *)
(* weight w is carried as the integer 10*w, and an f-score as 10*f, so     *)
(* that g + w*h is exact integer arithmetic.                               *)
(***************************************************************************)
EXTENDS Integers, Sequences, FiniteSets, TLC

(***************************************************************************)
(* Generic helpers.                                                        *)
(***************************************************************************)
\* The values that stand for no sequence where the source has one: null or
\* undefined (Null), an exception (Throw), a body that is no JSON
\* (InvalidJson).  TLC takes a string for the sequence of its characters
\* when it compares it with a sequence of the same length, so each of them
\* is a string longer than any sequence of the model.
Null == "null: the value is null, undefined or missing in the source program, never a sequence of the model"

Throw == "throw: the evaluation ends with an exception that is passed on to the caller of the function"

InvalidJson == "invalid JSON: response.json() rejects because the body of the answer is not a JSON document"

Range(s) == { s[k] : k \in DOMAIN s }

\* Array.prototype.map, yielding a sequence
RECURSIVE MapSeq(_, _)
MapSeq(F(_), s) == IF s = << >> THEN << >> ELSE << F(Head(s)) >> \o MapSeq(F, Tail(s))

(***************************************************************************)
(* Road Graph Model (roadNetwork.ts).                                      *)
(***************************************************************************)
\* Object.keys(locations): the insertion order of the location table.
locationIds ==
    << "connaught_place",
       "india_gate",
       "chandni_chowk",
       "karol_bagh",
       "rajouri_garden",
       "nehru_place",
       "saket",
       "dwarka",
       "noida_sector_18",
       "gurgaon_cyber_city",
       "lajpat_nagar",
       "hauz_khas",
       "kashmere_gate",
       "iffco_chowk" >>

locations ==
    [ connaught_place |-> [id |-> "connaught_place", name |-> "Connaught Place", lat |-> 28631500, lng |-> 77216700, type |-> "major"],
      india_gate |-> [id |-> "india_gate", name |-> "India Gate", lat |-> 28612900, lng |-> 77229500, type |-> "landmark"],
      chandni_chowk |-> [id |-> "chandni_chowk", name |-> "Chandni Chowk", lat |-> 28650600, lng |-> 77230300, type |-> "major"],
      karol_bagh |-> [id |-> "karol_bagh", name |-> "Karol Bagh", lat |-> 28651900, lng |-> 77190000, type |-> "major"],
      rajouri_garden |-> [id |-> "rajouri_garden", name |-> "Rajouri Garden", lat |-> 28641400, lng |-> 77121400, type |-> "major"],
      nehru_place |-> [id |-> "nehru_place", name |-> "Nehru Place", lat |-> 28549400, lng |-> 77250100, type |-> "major"],
      saket |-> [id |-> "saket", name |-> "Saket", lat |-> 28524400, lng |-> 77206600, type |-> "major"],
      dwarka |-> [id |-> "dwarka", name |-> "Dwarka", lat |-> 28592100, lng |-> 77046000, type |-> "major"],
      noida_sector_18 |-> [id |-> "noida_sector_18", name |-> "Noida Sector 18", lat |-> 28569700, lng |-> 77322700, type |-> "major"],
      gurgaon_cyber_city |-> [id |-> "gurgaon_cyber_city", name |-> "Gurgaon Cyber City", lat |-> 28495000, lng |-> 77087000, type |-> "major"],
      lajpat_nagar |-> [id |-> "lajpat_nagar", name |-> "Lajpat Nagar", lat |-> 28567700, lng |-> 77243100, type |-> "major"],
      hauz_khas |-> [id |-> "hauz_khas", name |-> "Hauz Khas", lat |-> 28549400, lng |-> 77193200, type |-> "major"],
      kashmere_gate |-> [id |-> "kashmere_gate", name |-> "Kashmere Gate", lat |-> 28667000, lng |-> 77228000, type |-> "junction"],
      iffco_chowk |-> [id |-> "iffco_chowk", name |-> "IFFCO Chowk", lat |-> 28473000, lng |-> 77032000, type |-> "junction"] ]

roads ==
    << [from |-> "connaught_place", to |-> "india_gate", distance |-> 250000, roadType |-> "main", baseSpeed |-> 35],
       [from |-> "connaught_place", to |-> "karol_bagh", distance |-> 520000, roadType |-> "main", baseSpeed |-> 30],
       [from |-> "connaught_place", to |-> "chandni_chowk", distance |-> 480000, roadType |-> "local", baseSpeed |-> 25],
       [from |-> "connaught_place", to |-> "kashmere_gate", distance |-> 550000, roadType |-> "main", baseSpeed |-> 35],
       [from |-> "india_gate", to |-> "lajpat_nagar", distance |-> 650000, roadType |-> "main", baseSpeed |-> 40],
       [from |-> "india_gate", to |-> "nehru_place", distance |-> 800000, roadType |-> "main", baseSpeed |-> 40],
       [from |-> "chandni_chowk", to |-> "kashmere_gate", distance |-> 200000, roadType |-> "local", baseSpeed |-> 20],
       [from |-> "karol_bagh", to |-> "rajouri_garden", distance |-> 600000, roadType |-> "main", baseSpeed |-> 35],
       [from |-> "karol_bagh", to |-> "hauz_khas", distance |-> 850000, roadType |-> "main", baseSpeed |-> 35],
       [from |-> "rajouri_garden", to |-> "dwarka", distance |-> 1200000, roadType |-> "highway", baseSpeed |-> 60],
       [from |-> "nehru_place", to |-> "lajpat_nagar", distance |-> 350000, roadType |-> "main", baseSpeed |-> 30],
       [from |-> "nehru_place", to |-> "saket", distance |-> 500000, roadType |-> "main", baseSpeed |-> 35],
       [from |-> "nehru_place", to |-> "noida_sector_18", distance |-> 1000000, roadType |-> "highway", baseSpeed |-> 55],
       [from |-> "saket", to |-> "hauz_khas", distance |-> 400000, roadType |-> "main", baseSpeed |-> 35],
       [from |-> "saket", to |-> "gurgaon_cyber_city", distance |-> 1400000, roadType |-> "highway", baseSpeed |-> 60],
       [from |-> "hauz_khas", to |-> "lajpat_nagar", distance |-> 450000, roadType |-> "main", baseSpeed |-> 30],
       [from |-> "hauz_khas", to |-> "iffco_chowk", distance |-> 1500000, roadType |-> "highway", baseSpeed |-> 55],
       [from |-> "dwarka", to |-> "iffco_chowk", distance |-> 800000, roadType |-> "highway", baseSpeed |-> 60],
       [from |-> "gurgaon_cyber_city", to |-> "iffco_chowk", distance |-> 500000, roadType |-> "highway", baseSpeed |-> 50],
       [from |-> "lajpat_nagar", to |-> "kashmere_gate", distance |-> 1100000, roadType |-> "main", baseSpeed |-> 35] >>

\* haversineDistance (astar.ts:16-26) of every two locations, in centimetres
\* (the double value rounded to the nearest centimetre); the function is
\* symmetric in its two points.
haversineTable ==
    [ connaught_place |-> [ connaught_place |-> 0, india_gate |-> 241629, chandni_chowk |-> 250442, karol_bagh |-> 345467, rajouri_garden |-> 936557, nehru_place |-> 969407, saket |-> 1194974, dwarka |-> 1722941, noida_sector_18 |-> 1242225, gurgaon_cyber_city |-> 1976916, lajpat_nagar |-> 754791, hauz_khas |-> 941302, kashmere_gate |-> 409854, iffco_chowk |-> 2522020 ],
      india_gate |-> [ connaught_place |-> 241629, india_gate |-> 0, chandni_chowk |-> 419278, karol_bagh |-> 580240, rajouri_garden |-> 1101643, nehru_place |-> 734180, saket |-> 1009166, dwarka |-> 1806286, noida_sector_18 |-> 1028969, gurgaon_cyber_city |-> 1912012, lajpat_nagar |-> 519846, hauz_khas |-> 790060, kashmere_gate |-> 601743, iffco_chowk |-> 2478244 ],
      chandni_chowk |-> [ connaught_place |-> 250442, india_gate |-> 419278, chandni_chowk |-> 0, karol_bagh |-> 393511, rajouri_garden |-> 1067608, nehru_place |-> 1141775, saket |-> 1422232, dwarka |-> 1912902, noida_sector_18 |-> 1273893, gurgaon_cyber_city |-> 2225258, lajpat_nagar |-> 930236, hauz_khas |-> 1182146, kashmere_gate |-> 183735, iffco_chowk |-> 2765960 ],
      karol_bagh |-> [ connaught_place |-> 345467, india_gate |-> 580240, chandni_chowk |-> 393511, karol_bagh |-> 0, rajouri_garden |-> 679531, nehru_place |-> 1281907, saket |-> 1426970, dwarka |-> 1554892, noida_sector_18 |-> 1585385, gurgaon_cyber_city |-> 2013817, lajpat_nagar |-> 1070175, hauz_khas |-> 1140176, kashmere_gate |-> 407019, iffco_chowk |-> 2517590 ],
      rajouri_garden |-> [ connaught_place |-> 936557, india_gate |-> 1101643, chandni_chowk |-> 1067608, karol_bagh |-> 679531, rajouri_garden |-> 0, nehru_place |-> 1620294, saket |-> 1544228, dwarka |-> 917713, noida_sector_18 |-> 2120703, gurgaon_cyber_city |-> 1662195, lajpat_nagar |-> 1443297, hauz_khas |-> 1240124, kashmere_gate |-> 1078417, iffco_chowk |-> 2066088 ],
      nehru_place |-> [ connaught_place |-> 969407, india_gate |-> 734180, chandni_chowk |-> 1141775, karol_bagh |-> 1281907, rajouri_garden |-> 1620294, nehru_place |-> 0, saket |-> 507785, dwarka |-> 2048900, noida_sector_18 |-> 744110, gurgaon_cyber_city |-> 1704428, lajpat_nagar |-> 214664, hauz_khas |-> 555766, kashmere_gate |-> 1325329, iffco_chowk |-> 2294136 ],
      saket |-> [ connaught_place |-> 1194974, india_gate |-> 1009166, chandni_chowk |-> 1422232, karol_bagh |-> 1426970, rajouri_garden |-> 1544228, nehru_place |-> 507785, saket |-> 0, dwarka |-> 1739809, noida_sector_18 |-> 1240861, gurgaon_cyber_city |-> 1213488, lajpat_nagar |-> 599104, hauz_khas |-> 307265, kashmere_gate |-> 1599345, iffco_chowk |-> 1799394 ],
      dwarka |-> [ connaught_place |-> 1722941, india_gate |-> 1806286, chandni_chowk |-> 1912902, karol_bagh |-> 1554892, rajouri_garden |-> 917713, nehru_place |-> 2048900, saket |-> 1739809, dwarka |-> 0, noida_sector_18 |-> 2713293, gurgaon_cyber_city |-> 1151585, lajpat_nagar |-> 1943631, hauz_khas |-> 1513858, kashmere_gate |-> 1961871, iffco_chowk |-> 1331375 ],
      noida_sector_18 |-> [ connaught_place |-> 1242225, india_gate |-> 1028969, chandni_chowk |-> 1273893, karol_bagh |-> 1585385, rajouri_garden |-> 2120703, nehru_place |-> 744110, saket |-> 1240861, dwarka |-> 2713293, noida_sector_18 |-> 0, gurgaon_cyber_city |-> 2447793, lajpat_nagar |-> 777662, hauz_khas |-> 1284744, kashmere_gate |-> 1423033, iffco_chowk |-> 3036872 ],
      gurgaon_cyber_city |-> [ connaught_place |-> 1976916, india_gate |-> 1912012, chandni_chowk |-> 2225258, karol_bagh |-> 2013817, rajouri_garden |-> 1662195, nehru_place |-> 1704428, saket |-> 1213488, dwarka |-> 1151585, noida_sector_18 |-> 2447793, gurgaon_cyber_city |-> 0, lajpat_nagar |-> 1725972, hauz_khas |-> 1201021, kashmere_gate |-> 2356568, iffco_chowk |-> 590588 ],
      lajpat_nagar |-> [ connaught_place |-> 754791, india_gate |-> 519846, chandni_chowk |-> 930236, karol_bagh |-> 1070175, rajouri_garden |-> 1443297, nehru_place |-> 214664, saket |-> 599104, dwarka |-> 1943631, noida_sector_18 |-> 777662, gurgaon_cyber_city |-> 1725972, lajpat_nagar |-> 0, hauz_khas |-> 528128, kashmere_gate |-> 1113960, iffco_chowk |-> 2315735 ],
      hauz_khas |-> [ connaught_place |-> 941302, india_gate |-> 790060, chandni_chowk |-> 1182146, karol_bagh |-> 1140176, rajouri_garden |-> 1240124, nehru_place |-> 555766, saket |-> 307265, dwarka |-> 1513858, noida_sector_18 |-> 1284744, gurgaon_cyber_city |-> 1201021, lajpat_nagar |-> 528128, hauz_khas |-> 0, kashmere_gate |-> 1351059, iffco_chowk |-> 1789574 ],
      kashmere_gate |-> [ connaught_place |-> 409854, india_gate |-> 601743, chandni_chowk |-> 183735, karol_bagh |-> 407019, rajouri_garden |-> 1078417, nehru_place |-> 1325329, saket |-> 1599345, dwarka |-> 1961871, noida_sector_18 |-> 1423033, gurgaon_cyber_city |-> 2356568, lajpat_nagar |-> 1113960, hauz_khas |-> 1351059, kashmere_gate |-> 0, iffco_chowk |-> 2883917 ],
      iffco_chowk |-> [ connaught_place |-> 2522020, india_gate |-> 2478244, chandni_chowk |-> 2765960, karol_bagh |-> 2517590, rajouri_garden |-> 2066088, nehru_place |-> 2294136, saket |-> 1799394, dwarka |-> 1331375, noida_sector_18 |-> 3036872, gurgaon_cyber_city |-> 590588, lajpat_nagar |-> 2315735, hauz_khas |-> 1789574, kashmere_gate |-> 2883917, iffco_chowk |-> 0 ] ]


haversineDistance(fromId, toId) == haversineTable[fromId][toId]

\* A heuristic weight that is no whole number of tenths:
\* 0.6407471173370138, written in ten-thousandths.  With it and the end
\* dwarka the fScores of hauz_khas and dwarka become equal.
TieWeight == 6407

\* heuristic(from, to, 0.6407471173370138) of every two locations as the
\* floating-point arithmetic yields it, in tenths of a centimetre.
tieHeuristicTable ==
    [ connaught_place |-> [ connaught_place |-> 0, india_gate |-> 1548232, chandni_chowk |-> 1604699, karol_bagh |-> 2213570, rajouri_garden |-> 6000961, nehru_place |-> 6211446, saket |-> 7656764, dwarka |-> 11039697, noida_sector_18 |-> 7959520, gurgaon_cyber_city |-> 12667030, lajpat_nagar |-> 4836305, hauz_khas |-> 6031368, kashmere_gate |-> 2626126, iffco_chowk |-> 16159768 ],
      india_gate |-> [ connaught_place |-> 1548232, india_gate |-> 0, chandni_chowk |-> 2686509, karol_bagh |-> 3717869, rajouri_garden |-> 7058748, nehru_place |-> 4704238, saket |-> 6466201, dwarka |-> 11573725, noida_sector_18 |-> 6593089, gurgaon_cyber_city |-> 12251160, lajpat_nagar |-> 3330898, hauz_khas |-> 5062288, kashmere_gate |-> 3855649, iffco_chowk |-> 15879274 ],
      chandni_chowk |-> [ connaught_place |-> 1604699, india_gate |-> 2686509, chandni_chowk |-> 0, karol_bagh |-> 2521413, rajouri_garden |-> 6840665, nehru_place |-> 7315888, saket |-> 9112907, dwarka |-> 12256865, noida_sector_18 |-> 8162434, gurgaon_cyber_city |-> 14258279, lajpat_nagar |-> 5960461, hauz_khas |-> 7574569, kashmere_gate |-> 1177279, iffco_chowk |-> 17722809 ],
      karol_bagh |-> [ connaught_place |-> 2213570, india_gate |-> 3717869, chandni_chowk |-> 2521413, karol_bagh |-> 0, rajouri_garden |-> 4354074, nehru_place |-> 8213780, saket |-> 9143269, dwarka |-> 9962926, noida_sector_18 |-> 10158311, gurgaon_cyber_city |-> 12903476, lajpat_nagar |-> 6857115, hauz_khas |-> 7305645, kashmere_gate |-> 2607965, iffco_chowk |-> 16131384 ],
      rajouri_garden |-> [ connaught_place |-> 6000961, india_gate |-> 7058748, chandni_chowk |-> 6840665, karol_bagh |-> 4354074, rajouri_garden |-> 0, nehru_place |-> 10381985, saket |-> 9894597, dwarka |-> 5880221, noida_sector_18 |-> 13588343, gurgaon_cyber_city |-> 10650468, lajpat_nagar |-> 9247884, hauz_khas |-> 7946061, kashmere_gate |-> 6909925, iffco_chowk |-> 13238397 ],
      nehru_place |-> [ connaught_place |-> 6211446, india_gate |-> 4704238, chandni_chowk |-> 7315888, karol_bagh |-> 8213780, rajouri_garden |-> 10381985, nehru_place |-> 0, saket |-> 3253615, dwarka |-> 13128265, noida_sector_18 |-> 4767860, gurgaon_cyber_city |-> 10921074, lajpat_nagar |-> 1375455, hauz_khas |-> 3561057, kashmere_gate |-> 8492010, iffco_chowk |-> 14699609 ],
      saket |-> [ connaught_place |-> 7656764, india_gate |-> 6466201, chandni_chowk |-> 9112907, karol_bagh |-> 9143269, rajouri_garden |-> 9894597, nehru_place |-> 3253615, saket |-> 0, dwarka |-> 11147774, noida_sector_18 |-> 7950778, gurgaon_cyber_city |-> 7775391, lajpat_nagar |-> 3838740, hauz_khas |-> 1968789, kashmere_gate |-> 10247758, iffco_chowk |-> 11529567 ],
      dwarka |-> [ connaught_place |-> 11039697, india_gate |-> 11573725, chandni_chowk |-> 12256865, karol_bagh |-> 9962926, rajouri_garden |-> 5880221, nehru_place |-> 13128265, saket |-> 11147774, dwarka |-> 0, noida_sector_18 |-> 17385346, gurgaon_cyber_city |-> 7378746, lajpat_nagar |-> 12453758, hauz_khas |-> 9700000, kashmere_gate |-> 12570630, iffco_chowk |-> 8530746 ],
      noida_sector_18 |-> [ connaught_place |-> 7959520, india_gate |-> 6593089, chandni_chowk |-> 8162434, karol_bagh |-> 10158311, rajouri_garden |-> 13588343, nehru_place |-> 4767860, saket |-> 7950778, dwarka |-> 17385346, noida_sector_18 |-> 0, gurgaon_cyber_city |-> 15684165, lajpat_nagar |-> 4982849, hauz_khas |-> 8231962, kashmere_gate |-> 9118041, iffco_chowk |-> 19458671 ],
      gurgaon_cyber_city |-> [ connaught_place |-> 12667030, india_gate |-> 12251160, chandni_chowk |-> 14258279, karol_bagh |-> 12903476, rajouri_garden |-> 10650468, nehru_place |-> 10921074, saket |-> 7775391, dwarka |-> 7378746, noida_sector_18 |-> 15684165, gurgaon_cyber_city |-> 0, lajpat_nagar |-> 11059116, hauz_khas |-> 7695508, kashmere_gate |-> 15099644, iffco_chowk |-> 3784175 ],
      lajpat_nagar |-> [ connaught_place |-> 4836305, india_gate |-> 3330898, chandni_chowk |-> 5960461, karol_bagh |-> 6857115, rajouri_garden |-> 9247884, nehru_place |-> 1375455, saket |-> 3838740, dwarka |-> 12453758, noida_sector_18 |-> 4982849, gurgaon_cyber_city |-> 11059116, lajpat_nagar |-> 0, hauz_khas |-> 3383963, kashmere_gate |-> 7137665, iffco_chowk |-> 14838004 ],
      hauz_khas |-> [ connaught_place |-> 6031368, india_gate |-> 5062288, chandni_chowk |-> 7574569, karol_bagh |-> 7305645, rajouri_garden |-> 7946061, nehru_place |-> 3561057, saket |-> 1968789, dwarka |-> 9700000, noida_sector_18 |-> 8231962, gurgaon_cyber_city |-> 7695508, lajpat_nagar |-> 3383963, hauz_khas |-> 0, kashmere_gate |-> 8656875, iffco_chowk |-> 11466641 ],
      kashmere_gate |-> [ connaught_place |-> 2626126, india_gate |-> 3855649, chandni_chowk |-> 1177279, karol_bagh |-> 2607965, rajouri_garden |-> 6909925, nehru_place |-> 8492010, saket |-> 10247758, dwarka |-> 12570630, noida_sector_18 |-> 9118041, gurgaon_cyber_city |-> 15099644, lajpat_nagar |-> 7137665, hauz_khas |-> 8656875, kashmere_gate |-> 0, iffco_chowk |-> 18478612 ],
      iffco_chowk |-> [ connaught_place |-> 16159768, india_gate |-> 15879274, chandni_chowk |-> 17722809, karol_bagh |-> 16131384, rajouri_garden |-> 13238397, nehru_place |-> 14699609, saket |-> 11529567, dwarka |-> 8530746, noida_sector_18 |-> 19458671, gurgaon_cyber_city |-> 3784175, lajpat_nagar |-> 14838004, hauz_khas |-> 11466641, kashmere_gate |-> 18478612, iffco_chowk |-> 0 ] ]

(***************************************************************************)
(* A JavaScript Map<string, V> is the sequence of its entries in insertion *)
(* order; set() on a present key keeps the entry's position.               *)
(***************************************************************************)
MapHas(m, k) == \E i \in DOMAIN m : m[i].key = k

MapGet(m, k) == m[CHOOSE i \in DOMAIN m : m[i].key = k].val

MapSet(m, k, v) ==
    IF MapHas(m, k)
    THEN [i \in DOMAIN m |-> IF m[i].key = k THEN [key |-> k, val |-> v] ELSE m[i]]
    ELSE Append(m, [key |-> k, val |-> v])

ReverseEdge(road) ==
    [from |-> road.to, to |-> road.from, distance |-> road.distance,
     roadType |-> road.roadType, baseSpeed |-> road.baseSpeed]

\* A variant that adds the declared direction only.
AddRoadOneWay(graph, road) ==
    IF road.from \in DOMAIN graph
    THEN [graph EXCEPT ![road.from] = MapSet(@, road.to, road)]
    ELSE graph

\* One iteration of roads.forEach in buildGraph: graph.get(x)?.set(...) does
\* nothing for an endpoint that is not a location.
AddRoad(graph, road) ==
    LET g1 == IF road.from \in DOMAIN graph
              THEN [graph EXCEPT ![road.from] = MapSet(@, road.to, road)]
              ELSE graph
    IN  IF road.to \in DOMAIN g1
        THEN [g1 EXCEPT ![road.to] = MapSet(@, road.from, ReverseEdge(road))]
        ELSE g1

RECURSIVE AddRoads(_, _)
AddRoads(graph, rs) ==
    IF rs = << >> THEN graph ELSE AddRoads(AddRoad(graph, Head(rs)), Tail(rs))

\* The adjacency structure: location id -> Map of neighbour id -> RoadEdge.
buildGraph == AddRoads([id \in DOMAIN locations |-> << >>], roads)

(***************************************************************************)
(* Path Search (astar.ts).                                                 *)
(***************************************************************************)
\* Infinity, returned by heuristic for an id that is not a location.
Infinity == 1000000000

\* heuristic(fromId, toId, weight) scaled by 10: w10 = 10 * weight, or
\* TieWeight for the weight that is no whole number of tenths.
heuristic(fromId, toId, w10) ==
    IF fromId \notin DOMAIN locations \/ toId \notin DOMAIN locations
    THEN Infinity
    ELSE IF w10 = TieWeight THEN tieHeuristicTable[fromId][toId]
    ELSE haversineDistance(fromId, toId) * w10

\* openSet.sort((a, b) => a.fScore - b.fScore): a stable sort, so nodes of
\* equal fScore keep their order in the array.  The array holds references
\* to the Node objects of nodeMap, so it is modelled as the ids.
RECURSIVE InsertSorted(_, _, _)
InsertSorted(sorted, id, nodeMap) ==
    IF sorted = << >> THEN << id >>
    ELSE IF nodeMap[Head(sorted)].fScore <= nodeMap[id].fScore
         THEN << Head(sorted) >> \o InsertSorted(Tail(sorted), id, nodeMap)
         ELSE << id >> \o sorted

RECURSIVE SortByFScore(_, _)
SortByFScore(openSet, nodeMap) ==
    IF openSet = << >> THEN << >>
    ELSE InsertSorted(SortByFScore(SubSeq(openSet, 1, Len(openSet) - 1), nodeMap),
                      openSet[Len(openSet)], nodeMap)

\* A variant that stops at the node without a parent and leaves it out.
RECURSIVE reconstructPathNoStart(_, _)
reconstructPathNoStart(nodeMap, current) ==
    IF current \notin DOMAIN nodeMap \/ nodeMap[current].parent = Null THEN << >>
    ELSE reconstructPathNoStart(nodeMap, nodeMap[current].parent) \o << current >>

RECURSIVE reconstructPath(_, _)
reconstructPath(nodeMap, current) ==
    IF current = Null THEN << >>
    ELSE reconstructPath(nodeMap,
                         IF current \in DOMAIN nodeMap THEN nodeMap[current].parent
                         ELSE Null) \o << current >>

\* A variant without the closedSet test: a closed node whose score can be
\* lowered is pushed again.
RelaxNeighborReopens(st, current, neighborId, edge, endId, w10) ==
    LET tentativeGScore == st.nodeMap[current].gScore + edge.distance
        node == [gScore |-> tentativeGScore,
                 fScore |-> 10 * tentativeGScore + heuristic(neighborId, endId, w10),
                 parent |-> current]
    IN  IF neighborId \notin DOMAIN st.nodeMap
        THEN [st EXCEPT !.nodeMap = (neighborId :> node) @@ @,
                        !.openSet = Append(@, neighborId)]
        ELSE IF tentativeGScore < st.nodeMap[neighborId].gScore
        THEN [st EXCEPT !.nodeMap[neighborId] = node,
                        !.openSet = IF neighborId \in Range(@) THEN @
                                    ELSE Append(@, neighborId)]
        ELSE st

\* The body of "for (const [neighborId, edge] of neighbors)" for one entry.
RelaxNeighbor(st, current, neighborId, edge, endId, w10) ==
    LET tentativeGScore == st.nodeMap[current].gScore + edge.distance
        node == [gScore |-> tentativeGScore,
                 fScore |-> 10 * tentativeGScore + heuristic(neighborId, endId, w10),
                 parent |-> current]
    IN  IF neighborId \in st.closedSet THEN st
        ELSE IF neighborId \notin DOMAIN st.nodeMap
        THEN [st EXCEPT !.nodeMap = (neighborId :> node) @@ @,
                        !.openSet = Append(@, neighborId)]
        ELSE IF tentativeGScore < st.nodeMap[neighborId].gScore
        THEN [st EXCEPT !.nodeMap[neighborId] = node,
                        !.openSet = IF neighborId \in Range(@) THEN @
                                    ELSE Append(@, neighborId)]
        ELSE st

RECURSIVE RelaxNeighbors(_, _, _, _, _)
RelaxNeighbors(st, current, neighbors, endId, w10) ==
    IF neighbors = << >> THEN st
    ELSE RelaxNeighbors(RelaxNeighbor(st, current, Head(neighbors).key,
                                      Head(neighbors).val, endId, w10),
                        current, Tail(neighbors), endId, w10)

astarInit(startId, endId, w10) ==
    [openSet   |-> << startId >>,
     closedSet |-> {},
     nodeMap   |-> (startId :> [gScore |-> 0,
                                fScore |-> heuristic(startId, endId, w10),
                                parent |-> Null]),
     found     |-> FALSE,
     path      |-> Null]

\* One iteration of "while (openSet.length > 0)".
astarStep(st, endId, w10) ==
    LET sorted  == SortByFScore(st.openSet, st.nodeMap)
        current == Head(sorted)
    IN  IF current = endId
        THEN [st EXCEPT !.openSet = Tail(sorted), !.found = TRUE,
                        !.path = reconstructPath(st.nodeMap, endId)]
        ELSE RelaxNeighbors([st EXCEPT !.openSet = Tail(sorted),
                                       !.closedSet = @ \cup {current}],
                            current, buildGraph[current], endId, w10)

RECURSIVE astarLoop(_, _, _)
astarLoop(st, endId, w10) ==
    IF st.found THEN st.path
    ELSE IF st.openSet = << >> THEN Null
    ELSE astarLoop(astarStep(st, endId, w10), endId, w10)

\* astar(startId, endId, heuristicWeight): a path (sequence of ids) or Null.
astar(startId, endId, w10) ==
    IF startId \notin DOMAIN buildGraph \/ endId \notin DOMAIN buildGraph
    THEN Null
    ELSE astarLoop(astarInit(startId, endId, w10), endId, w10)

\* A variant that takes no two paths for equal.
pathsEqualNever(path1, path2) == FALSE

pathsEqual(path1, path2) ==
    IF path1 = Null \/ path2 = Null THEN FALSE
    ELSE IF Len(path1) # Len(path2) THEN FALSE
    ELSE \A i \in DOMAIN path1 : path1[i] = path2[i]

\* A variant that keeps only the paths that differ from the weight 1.0 one.
findAlternativeRoutesOnly(startId, endId) ==
    LET route1 == astar(startId, endId, 10)
        route2 == astar(startId, endId, 6)
        route3 == astar(startId, endId, 15)
        routes2 == IF route2 # Null /\ ~pathsEqual(route1, route2) THEN << route2 >> ELSE << >>
    IN  IF route3 # Null /\ ~pathsEqual(route1, route3) /\ ~pathsEqual(route2, route3)
        THEN Append(routes2, route3) ELSE routes2

findMultipleRoutes(startId, endId) ==
    LET route1  == astar(startId, endId, 10)
        routes1 == IF route1 # Null THEN << route1 >> ELSE << >>
        route2  == astar(startId, endId, 6)
        routes2 == IF route2 # Null /\ ~pathsEqual(route1, route2)
                   THEN Append(routes1, route2) ELSE routes1
        route3  == astar(startId, endId, 15)
        routes3 == IF route3 # Null /\ ~pathsEqual(route1, route3)
                      /\ ~pathsEqual(route2, route3)
                   THEN Append(routes2, route3) ELSE routes2
        route4  == astar(startId, endId, 8)
    IN  IF Len(routes3) < 3
        THEN IF route4 # Null /\ ~(\E k \in DOMAIN routes3 : pathsEqual(routes3[k], route4))
             THEN Append(routes3, route4) ELSE routes3
        ELSE routes3

\* graph.get(from)?.get(to): the edge as a one-element sequence, or the
\* empty sequence for undefined.
EdgeOf(graph, from, to) ==
    IF from \in DOMAIN graph /\ MapHas(graph[from], to)
    THEN << MapGet(graph[from], to) >>
    ELSE << >>

\* The loop of calculatePathDistance from index i (1-based) on: a pair
\* without an edge adds nothing.
RECURSIVE PathDistanceFrom(_, _, _)
PathDistanceFrom(graph, path, i) ==
    IF i >= Len(path) THEN 0
    ELSE LET edge == EdgeOf(graph, path[i], path[i + 1])
         IN  (IF edge # << >> THEN edge[1].distance ELSE 0)
                + PathDistanceFrom(graph, path, i + 1)

\* calculatePathDistance(path), in cm.
calculatePathDistance(path) == PathDistanceFrom(buildGraph, path, 1)

\* The loop of getPathSegments from index i on: a pair without an edge
\* pushes nothing.
RECURSIVE PathSegmentsFrom(_, _, _)
PathSegmentsFrom(graph, path, i) ==
    IF i >= Len(path) THEN << >>
    ELSE EdgeOf(graph, path[i], path[i + 1]) \o PathSegmentsFrom(graph, path, i + 1)

getPathSegments(path) == PathSegmentsFrom(buildGraph, path, 1)

(***************************************************************************)
(* Geometry providers.  A provider's answer is an input of the model: a    *)
(* record of what fetch() and response.json() deliver.                     *)
(*   settle : "reject" (network error) or "resolve"                        *)
(*   ok     : response.ok                                                  *)
(*   routes : data.routes, Null when the field is missing, InvalidJson     *)
(*            when response.json() rejects                                 *)
(*   kind   : a label of the case, read by the properties only             *)
(* An optional record field (summary, guidance) is a sequence of zero or   *)
(* one record.                                                             *)
(***************************************************************************)
\* A variant without the catch.
Rethrow(v) == v

\* try { ... } catch (error) { return null }
CatchReturnNull(v) == IF v = Throw THEN Null ELSE v

Green  == "#22c55e"
Red    == "#ef4444"
Orange == "#f59e0b"

\* ---- tomtomService.ts ----

\* A variant that asks for one alternative more.
MaxAlternativesMore == 2 + 1

\* maxAlternatives of the request URL: the provider answers with the best
\* route and at most this many alternatives.
MaxAlternatives == 2

\* !apiKey || apiKey.includes('placeholder')
KeyUnusable(key) == key \in {"missing", "placeholder"}

\* points.push({ lat: point.latitude, lng: point.longitude })
TomTomPoint(point) == [lat |-> point.latitude, lng |-> point.longitude]

\* route.legs.forEach(leg => leg.points.forEach(...))
RECURSIVE TomTomPoints(_)
TomTomPoints(legs) ==
    IF legs = << >> THEN << >>
    ELSE MapSeq(TomTomPoint, Head(legs).points) \o TomTomPoints(Tail(legs))

\* One iteration of route.sections.forEach.
TomTomSectionStep(acc, section) ==
    LET gap   == IF section.startPointIndex > acc.lastIndex
                 THEN << [color |-> Green, start_index |-> acc.lastIndex,
                          end_index |-> section.startPointIndex] >>
                 ELSE << >>
        color == IF section.sectionType = "TRAFFIC" THEN Red
                 ELSE IF section.sectionType = "JAMS" THEN Red
                 ELSE Green
    IN  [segments  |-> acc.segments \o gap \o
                       << [color |-> color,
                           start_index |-> section.startPointIndex,
                           end_index |-> section.endPointIndex] >>,
         lastIndex |-> section.endPointIndex]

RECURSIVE TomTomSections(_, _)
TomTomSections(acc, sections) ==
    IF sections = << >> THEN acc
    ELSE TomTomSections(TomTomSectionStep(acc, Head(sections)), Tail(sections))

TomTomSegments(route, points) ==
    LET acc == IF route.sections # Null
               THEN TomTomSections([segments |-> << >>, lastIndex |-> 0], route.sections)
               ELSE [segments |-> << >>, lastIndex |-> 0]
    IN  IF acc.lastIndex < Len(points) - 1
        THEN Append(acc.segments, [color |-> Green, start_index |-> acc.lastIndex,
                                   end_index |-> Len(points) - 1])
        ELSE acc.segments

\* relevantManeuvers.some(m => instruction.maneuver.includes(m)), over the
\* maneuver codes the answers of the model use.
RelevantManeuver(maneuver) ==
    maneuver \in {"TURN_LEFT", "TURN_RIGHT", "ROUNDABOUT_CROSS", "MOTORWAY_MERGE"}

TomTomSignal(instruction, segments) ==
    LET hit   == { k \in DOMAIN segments :
                     /\ instruction.pointIndex >= segments[k].start_index
                     /\ instruction.pointIndex <= segments[k].end_index }
        \* segments.find: the first segment that holds the point
        color == IF hit = {} THEN Green
                 ELSE segments[CHOOSE k \in hit : \A j \in hit : k <= j].color
        state == IF color = Orange THEN "yellow"
                 ELSE IF color = Red THEN "red" ELSE "green"
    IN  [lat |-> instruction.point.latitude, lng |-> instruction.point.longitude,
         state |-> state]

RECURSIVE TomTomSignals(_, _)
TomTomSignals(instructions, segments) ==
    IF instructions = << >> THEN << >>
    ELSE (IF RelevantManeuver(Head(instructions).maneuver)
          THEN << TomTomSignal(Head(instructions), segments) >> ELSE << >>)
         \o TomTomSignals(Tail(instructions), segments)

\* The callback of data.routes.map raises a TypeError when it reads a
\* property of undefined: route.legs or route.summary missing.
TomTomRouteThrows(route) == route.legs = Null \/ route.summary = << >>

\* The callback of data.routes.map, for a route it does not raise on.
TomTomParseRoute(route) ==
    LET points   == TomTomPoints(route.legs)
        segments == TomTomSegments(route, points)
        signals  == IF route.guidance # << >>
                    THEN TomTomSignals(route.guidance[1].instructions, segments)
                    ELSE << >>
    IN  [geometry |-> points,
         segments |-> segments,
         signals  |-> signals,
         summary  |-> [distance   |-> route.summary[1].lengthInMeters,
                       travelTime |-> route.summary[1].travelTimeInSeconds]]

\* What the try block of fetchTomTomRoute evaluates to once fetch settles.
TomTomBody(resp) ==
    IF resp.settle = "reject" THEN Throw
    ELSE IF ~resp.ok THEN Null
    ELSE IF resp.routes = InvalidJson THEN Throw
    ELSE IF resp.routes = Null THEN Null
    ELSE IF Len(resp.routes) = 0 THEN Null
    ELSE IF \E k \in DOMAIN resp.routes : TomTomRouteThrows(resp.routes[k]) THEN Throw
    ELSE MapSeq(TomTomParseRoute, resp.routes)

fetchTomTomRoute(resp) == CatchReturnNull(TomTomBody(resp))

\* ---- mapboxService.ts ----

\* One varint of the polyline: the loop "do { b = charCodeAt(index++) - 63;
\* result |= (b & 0x1f) << shift; shift += 5 } while (b >= 0x20)".  The
\* chunks occupy disjoint bits, so |= is addition.  Yields the value and
\* the index after it.
RECURSIVE PolylineChunk(_, _, _, _)
PolylineChunk(encoded, index, shift, result) ==
    IF index > Len(encoded) THEN [result |-> result, index |-> index + 1]
    ELSE LET b == encoded[index] - 63
             r == result + (b % 32) * (2 ^ shift)
         IN  IF b >= 32 THEN PolylineChunk(encoded, index + 1, shift + 5, r)
             ELSE [result |-> r, index |-> index + 1]

\* (result & 1) ? ~(result >> 1) : (result >> 1)
PolylineDelta(result) ==
    IF result % 2 = 1 THEN -(result \div 2) - 1 ELSE result \div 2

\* decodePolyline over the character codes of the string; a point is
\* lat / 1e5 degrees, that is 10 * lat micro-degrees.
RECURSIVE DecodeFrom(_, _, _, _)
DecodeFrom(encoded, index, lat, lng) ==
    IF index > Len(encoded) THEN << >>
    ELSE LET c1   == PolylineChunk(encoded, index, 0, 0)
             lat2 == lat + PolylineDelta(c1.result)
             c2   == PolylineChunk(encoded, c1.index, 0, 0)
             lng2 == lng + PolylineDelta(c2.result)
         IN  << [lat |-> 10 * lat2, lng |-> 10 * lng2] >>
             \o DecodeFrom(encoded, c2.index, lat2, lng2)

decodePolyline(encoded) ==
    IF encoded = Null THEN Throw ELSE DecodeFrom(encoded, 1, 0, 0)

MapboxBody(resp) ==
    IF resp.settle = "reject" THEN Throw
    ELSE IF ~resp.ok THEN Null
    ELSE IF resp.routes = InvalidJson THEN Throw
    ELSE IF resp.routes = Null THEN Null
    ELSE IF Len(resp.routes) = 0 THEN Null
    ELSE decodePolyline(resp.routes[1].geometry)

fetchMapboxRoute(resp) == CatchReturnNull(MapboxBody(resp))

\* ---- osrmService.ts ----

\* geometryPoints.map(coord => ({ lng: coord[0], lat: coord[1] }))
OSRMWaypoint(coord) == [lng |-> coord[1], lat |-> coord[2]]

OSRMBody(resp) ==
    IF resp.settle = "reject" THEN Throw
    ELSE IF ~resp.ok THEN Null
    ELSE IF resp.routes = InvalidJson THEN Throw
    ELSE IF resp.code # "Ok" THEN Null
    ELSE IF resp.routes = Null THEN Null
    ELSE IF Len(resp.routes) = 0 THEN Null
    ELSE LET geometryPoints == resp.routes[1].coordinates
         IN  IF geometryPoints = Null THEN Throw
             ELSE MapSeq(OSRMWaypoint, geometryPoints)

fetchOSRMRoute(resp) == CatchReturnNull(OSRMBody(resp))

(***************************************************************************)
(* Route cache (routeCache.ts).                                            *)
(***************************************************************************)
routeCache ==
    ("Connaught Place-India Gate" :>
        << [lat |-> 28631500, lng |-> 77216700], [lat |-> 28632000, lng |-> 77218000],
           [lat |-> 28631000, lng |-> 77220000], [lat |-> 28629000, lng |-> 77223000],
           [lat |-> 28627000, lng |-> 77226000], [lat |-> 28625000, lng |-> 77229000],
           [lat |-> 28623000, lng |-> 77229500], [lat |-> 28620000, lng |-> 77229500],
           [lat |-> 28617000, lng |-> 77229000], [lat |-> 28615000, lng |-> 77228500],
           [lat |-> 28612900, lng |-> 77229500] >>)
    @@
    ("India Gate-Connaught Place" :>
        << [lat |-> 28612900, lng |-> 77229500], [lat |-> 28615000, lng |-> 77230500],
           [lat |-> 28617000, lng |-> 77230000], [lat |-> 28620000, lng |-> 77229500],
           [lat |-> 28625000, lng |-> 77229000], [lat |-> 28627000, lng |-> 77226000],
           [lat |-> 28629000, lng |-> 77223000], [lat |-> 28631000, lng |-> 77220000],
           [lat |-> 28632000, lng |-> 77218000], [lat |-> 28631500, lng |-> 77216700] >>)

findCachedRouteByName(startName, endName) ==
    LET key == startName \o "-" \o endName
    IN  IF key \in DOMAIN routeCache THEN routeCache[key] ELSE Null

(***************************************************************************)
(* Geometry Resolution Pipeline (osrmService.ts).                          *)
(***************************************************************************)
\* The numPoints argument getDetailedRouteGeometry passes to interpolatePoints.
FallbackNumPoints == 20

\* One coordinate of the quadratic Bezier point at t = i / numPoints:
\*   (1-t)^2 * s + 2(1-t)t * control + t^2 * e
\*     = s + (i(n-i) * (2*control - 2s) + i^2 * (e - s)) / n^2
\* (the three weights add up to 1), rounded down to the micro-degree.
\* control2 is twice the control coordinate.
BezierCoord(s, control2, e, i, n) ==
    s + (i * (n - i) * (control2 - 2 * s) + i * i * (e - s)) \div (n * n)

RECURSIVE BezierPoints(_, _, _, _)
BezierPoints(startPt, endPt, i, numPoints) ==
    IF i >= numPoints THEN << >>
    ELSE LET dx == endPt.lng - startPt.lng
             dy == endPt.lat - startPt.lat
             \* control = mid -/+ d * offsetFactor, offsetFactor = 0.5
             controlLat2 == (startPt.lat + endPt.lat) - dx
             controlLng2 == (startPt.lng + endPt.lng) + dy
         IN  << [lat |-> BezierCoord(startPt.lat, controlLat2, endPt.lat, i, numPoints),
                 lng |-> BezierCoord(startPt.lng, controlLng2, endPt.lng, i, numPoints)] >>
             \o BezierPoints(startPt, endPt, i + 1, numPoints)

interpolatePoints(startPt, endPt, numPoints) ==
    << startPt >> \o BezierPoints(startPt, endPt, 1, numPoints) \o << endPt >>

\* segmentPoints.slice(0, -1)
DropLast(s) == SubSeq(s, 1, Len(s) - 1)

\* The loop of the synthetic fallback over path[i], path[i + 1].
RECURSIVE InterpolateSegments(_, _)
InterpolateSegments(path, i) ==
    IF i >= Len(path) THEN << >>
    ELSE DropLast(interpolatePoints(path[i], path[i + 1], FallbackNumPoints))
         \o InterpolateSegments(path, i + 1)

\* A variant that leaves out the final point.
SyntheticPathOpen(path) == InterpolateSegments(path, 1)

SyntheticPath(path) == Append(InterpolateSegments(path, 1), path[Len(path)])

\* The geometry records getDetailedRouteGeometry returns; an absent field
\* (undefined) is Null, an absent summary the empty sequence.
PathOnly(path) ==
    [path |-> path, traffic_segments |-> Null, traffic_signals |-> Null, summary |-> << >>]

TomTomGeometry(r) ==
    [path |-> r.geometry, traffic_segments |-> r.segments,
     traffic_signals |-> r.signals, summary |-> << r.summary >>]

\* An entry of the log of the stages a call has started.
Stage(name, response, result) == [stage |-> name, response |-> response, result |-> result]

ResultClass(v) ==
    IF v = Throw THEN "throw"
    ELSE IF v = Null THEN "null"
    ELSE IF Len(v) = 0 THEN "empty" ELSE "value"

SettleLast(log, response, v) ==
    [log EXCEPT ![Len(log)] = Stage(@.stage, response, ResultClass(v))]

\* Where a call of getDetailedRouteGeometry stands: suspended on a fetch
\* (pc = "awaitTomTom", ...), returned ("resolved", with the geometries) or
\* left by an exception ("rejected").
Suspended(pcName, log) == [pc |-> pcName, stages |-> log, geoms |-> << >>]
Resolved(log, geoms)   == [pc |-> "resolved", stages |-> log, geoms |-> geoms]
Rejected(log)          == [pc |-> "rejected", stages |-> log, geoms |-> << >>]

\* 5. Fallback: smooth curve interpolation.
SyntheticStage(log, path) ==
    Resolved(Append(log, Stage("synthetic", "none", "value")),
             << PathOnly(SyntheticPath(path)) >>)

\* From the value of "await fetchOSRMRoute(path)" on.
AfterOSRM(log, path, osrmWaypoints) ==
    IF osrmWaypoints = Throw THEN Rejected(log)
    ELSE IF osrmWaypoints # Null /\ Len(osrmWaypoints) > 0
    THEN Resolved(log, << PathOnly(osrmWaypoints) >>)
    ELSE SyntheticStage(log, path)

\* 4. fetchOSRMRoute(path), up to its fetch.
CallOSRM(log, path) ==
    IF Len(path) < 2
    THEN AfterOSRM(Append(log, Stage("osrm", "notSent", "null")), path, Null)
    ELSE Suspended("awaitOSRM", Append(log, Stage("osrm", "none", "pending")))

\* From the value of "await fetchMapboxRoute(path)" on.
AfterMapbox(log, path, mapboxWaypoints) ==
    IF mapboxWaypoints = Throw THEN Rejected(log)
    ELSE IF mapboxWaypoints # Null /\ Len(mapboxWaypoints) > 0
    THEN Resolved(log, << PathOnly(mapboxWaypoints) >>)
    ELSE CallOSRM(log, path)

\* 3. fetchMapboxRoute(path), up to its fetch.
CallMapbox(log, path, env) ==
    IF KeyUnusable(env.mapboxToken)
    THEN AfterMapbox(Append(log, Stage("mapbox", "notSent", "null")), path, Null)
    ELSE Suspended("awaitMapbox", Append(log, Stage("mapbox", "none", "pending")))

\* A variant that goes on to Mapbox whatever TomTom returned.
AfterTomTomEager(log, path, env, tomtomRoutes) == CallMapbox(log, path, env)

\* From the value of "await fetchTomTomRoute(path)" on.
AfterTomTom(log, path, env, tomtomRoutes) ==
    IF tomtomRoutes = Throw THEN Rejected(log)
    ELSE IF tomtomRoutes # Null /\ Len(tomtomRoutes) > 0
    THEN Resolved(log, MapSeq(TomTomGeometry, tomtomRoutes))
    ELSE CallMapbox(log, path, env)

\* 2. fetchTomTomRoute(path), up to its fetch.
CallTomTom(log, path, env) ==
    IF KeyUnusable(env.tomtomKey)
    THEN AfterTomTom(Append(log, Stage("tomtom", "notSent", "null")), path, env, Null)
    ELSE Suspended("awaitTomTom", Append(log, Stage("tomtom", "none", "pending")))

\* getDetailedRouteGeometry(path, startName, endName) up to its first
\* fetch.  The cache lookup (stage 1) is commented out in the source: the
\* names are not read.
getDetailedRouteGeometry(path, startName, endName, env) ==
    IF Len(path) < 2 THEN Resolved(<< >>, << PathOnly(path) >>)
    ELSE CallTomTom(<< >>, path, env)

(***************************************************************************)
(* Route Assembler (routeGenerator.ts).                                    *)
(***************************************************************************)
Count(segments, color) == Cardinality({ k \in DOMAIN segments : segments[k].color = color })

\* redRatio > 0.3 is 10 * redCount > 3 * total, and so on.
calculateCrowdFromSegments(segments) ==
    IF segments = Null THEN "low"
    ELSE IF Len(segments) = 0 THEN "low"
    ELSE LET redCount    == Count(segments, Red)
             orangeCount == Count(segments, Orange)
             total       == Len(segments)
         IN  IF 10 * redCount > 3 * total THEN "high"
             ELSE IF 10 * redCount > total \/ 10 * orangeCount > 4 * total THEN "medium"
             ELSE "low"

Abs(x) == IF x < 0 THEN -x ELSE x

Max(a, b) == IF a >= b THEN a ELSE b

\* The largest r with r * r <= n, by bisection between lo and hi.
RECURSIVE ISqrtBetween(_, _, _)
ISqrtBetween(n, lo, hi) ==
    IF lo >= hi THEN lo
    ELSE LET mid == (lo + hi + 1) \div 2
         IN  IF mid * mid <= n THEN ISqrtBetween(n, mid, hi)
             ELSE ISqrtBetween(n, lo, mid - 1)

ISqrt(n) == ISqrtBetween(n, 0, 46340)

\* 10000 * cos(lat), lat in micro-degrees: x = lat * (PI / 180) in 1e-4
\* radian, cos x = 1 - x^2/2 + x^4/24.
Cos1e4(lat) ==
    LET x  == ((lat \div 1000) * 17453) \div 100000
        x2 == (x * x) \div 10000
    IN  10000 - x2 \div 2 + (x2 * x2) \div 240000

\* The haversine distance generateRoutes computes inline for p1, p2, in
\* centimetres, in fixed point: R = 6371 km, and for two points of one
\* geometry, a fraction of a degree apart, sin x = x and atan2(sqrt(a),
\* sqrt(1-a)) = sqrt(a) to the precision kept, so that
\*   d = R * (PI / 180) * sqrt(dLat^2 + cos(lat1) * cos(lat2) * dLon^2).
\* One micro-degree of arc is 11.119 cm.  Differences beyond 30000
\* micro-degrees are scaled down before they are squared.
\* The result is within 0.2 percent of the source's floating-point value.
SegmentDistance(p1, p2) ==
    LET k      == 1 + Max(Abs(p2.lat - p1.lat), Abs(p2.lng - p1.lng)) \div 30000
        dLat   == (p2.lat - p1.lat) \div k
        dLon   == (p2.lng - p1.lng) \div k
        cc     == (Cos1e4(p1.lat) * Cos1e4(p2.lat)) \div 10000
        a      == dLat * dLat + dLon * ((dLon * cc) \div 10000)
    IN  k * ((ISqrt(a) * 11119) \div 1000)

\* for (k = 0; k < geometry.path.length - 1; k++) distance += d
RECURSIVE PathDistance(_, _)
PathDistance(path, k) ==
    IF k >= Len(path) THEN 0
    ELSE SegmentDistance(path[k], path[k + 1]) + PathDistance(path, k + 1)

\* distance in centimetres: the provider's summary (metres) when there
\* is one, the length of the geometry otherwise.
RouteDistance(geometry) ==
    IF geometry.summary # << >> THEN geometry.summary[1].distance * 100
    ELSE PathDistance(geometry.path, 1)

\* estimatedTime in milliseconds: summary.travelTime (seconds) / 60
\* minutes, or (distance / 30) * 60 minutes, 1.2 ms for each centimetre.
RouteTime(geometry) ==
    IF geometry.summary # << >> THEN geometry.summary[1].travelTime * 1000
    ELSE (PathDistance(geometry.path, 1) * 6) \div 5

\* parseFloat(distance.toFixed(2)): kilometres rounded to two decimals,
\* as the number of hundredths of a kilometre.
ToFixed2(distanceCm) == (distanceCm + 500) \div 1000

routeNames == << "Optimal Route", "Alternative Route", "Secondary Route" >>

\* routeNames[i] || `Route ${i + 1}`, for the 1-based position n = i + 1
RouteName(n) == IF n <= Len(routeNames) THEN routeNames[n] ELSE "Route " \o ToString(n)

\* A variant that flags every route.
IsOptimalAny(n) == n >= 1

\* is_optimal: i === 0, for the 1-based position n = i + 1
IsOptimal(n) == n = 1

\* Every how many geometry points generateJunctions places a junction.
JunctionSpacing == 50

\* Math.random() is r / 1000, r the draw.
TimeWithoutAi(r) == (r * 60) \div 1000 + 30

\* A variant in which the AI timing lengthens the wait by 30%.
TimeWithAiLonger(timeWithoutAi) == (timeWithoutAi * 13) \div 10

TimeWithAi(timeWithoutAi) == (timeWithoutAi * 7) \div 10

VehiclesWaiting(r) == (r * 20) \div 1000

\* The loop of generateJunctions from junction i on; draws[i] holds the two
\* Math.random() values of junction i, firstId + i the UUID it gets.
RECURSIVE JunctionsFrom(_, _, _, _, _)
JunctionsFrom(routeId, pathCoords, i, draws, firstId) ==
    LET junctionCount == Len(pathCoords) \div JunctionSpacing
        index         == i * JunctionSpacing
    IN  IF i > junctionCount THEN << >>
        ELSE IF index >= Len(pathCoords) THEN << >>
        ELSE LET loc == pathCoords[index + 1]
                 timeWithoutAi == TimeWithoutAi(draws[i][1])
             IN  << [id |-> firstId + i,
                     route_id |-> routeId,
                     junction_name |-> "Junction " \o ToString(i),
                     latitude |-> loc.lat,
                     longitude |-> loc.lng,
                     vehicles_waiting |-> VehiclesWaiting(draws[i][2]),
                     time_without_ai |-> timeWithoutAi,
                     time_with_ai |-> TimeWithAi(timeWithoutAi),
                     crowd_density |-> "medium",
                     ai_optimization_active |-> TRUE] >>
                 \o JunctionsFrom(routeId, pathCoords, i + 1, draws, firstId)

\* A variant that leaves the junctions without their route.
generateJunctionsUnowned(routeId, pathCoords, draws) ==
    JunctionsFrom(0, pathCoords, 1, draws, routeId)

generateJunctions(routeId, pathCoords, draws) ==
    JunctionsFrom(routeId, pathCoords, 1, draws, routeId)

\* How many junctions generateJunctions makes for a path of n points.
JunctionsOf(n) ==
    Cardinality({ i \in 1..(n \div JunctionSpacing) : i * JunctionSpacing < n })

\* The Route record the loop body of generateRoutes builds for the n-th
\* geometry; routeId is the UUID drawn for it.
AssembleRoute(geometry, n, routeId, search, draws) ==
    [id               |-> routeId,
     search_id        |-> search,
     route_name       |-> RouteName(n),
     total_distance   |-> ToFixed2(RouteDistance(geometry)),
     estimated_time   |-> RouteTime(geometry),
     crowd_level      |-> calculateCrowdFromSegments(geometry.traffic_segments),
     path_coordinates |-> geometry.path,
     traffic_segments |-> geometry.traffic_segments,
     traffic_signals  |-> geometry.traffic_signals,
     is_optimal       |-> IsOptimal(n),
     junctions        |-> generateJunctions(routeId, geometry.path, draws)]

(***************************************************************************)
(* The environment of a generateRoutes call: the configuration, the        *)
(* arguments and what the providers and the database answer.               *)
(***************************************************************************)
\* import.meta.env
Configs ==
    [supabaseUrl : {"placeholder", "real"},
     tomtomKey   : {"placeholder", "valid"},
     mapboxToken : {"placeholder", "valid"}]

\* import.meta.env.VITE_SUPABASE_URL?.includes('placeholder')
IsDemoMode(env) == env.supabaseUrl = "placeholder"

ConnaughtPlace == [name |-> "Connaught Place", lat |-> 28631500, lng |-> 77216700]
IndiaGate      == [name |-> "India Gate", lat |-> 28612900, lng |-> 77229500]
MandiHouse     == [name |-> "Mandi House", lat |-> 28625000, lng |-> 77229000]
NoLocation     == [name |-> "", lat |-> 0, lng |-> 0]

\* The Location arguments of the calls: two nodes of the road graph and a
\* place that is none.
CallLocations == { ConnaughtPlace, IndiaGate, MandiHouse }

\* findLocationByName(name) # null, for the names of CallLocations (each
\* is the exact name of a location or matches none).
IsGraphNode(name) == \E id \in DOMAIN locations : locations[id].name = name

\* Number of points of the long geometry a provider may answer with.
LongRoutePoints == 51

\* The samples of Math.random(), in thousandths, are k * 999 / DrawSteps.
DrawSteps == 2

RandomDraws == { (k * 999) \div DrawSteps : k \in 0..DrawSteps }

TTPoint(lat, lng) == [latitude |-> lat, longitude |-> lng]

RECURSIVE LongLeg(_, _)
LongLeg(k, n) ==
    IF k > n THEN << >>
    ELSE << TTPoint(28631500 - 300 * k, 77216700 + 200 * k) >> \o LongLeg(k + 1, n)

\* Routes of a TomTom answer.
TTDirect ==
    [legs     |-> << [points |-> << TTPoint(28631500, 77216700),
                                   TTPoint(28625000, 77229000),
                                   TTPoint(28612900, 77229500) >>] >>,
     sections |-> << [startPointIndex |-> 1, endPointIndex |-> 2,
                      sectionType |-> "TRAFFIC"] >>,
     guidance |-> << [instructions |->
                        << [maneuver |-> "TURN_LEFT", pointIndex |-> 1,
                            point |-> TTPoint(28625000, 77229000)],
                           [maneuver |-> "STRAIGHT", pointIndex |-> 2,
                            point |-> TTPoint(28612900, 77229500)] >>] >>,
     summary  |-> << [lengthInMeters |-> 2600, travelTimeInSeconds |-> 540] >>]

TTFaster ==
    [legs     |-> << [points |-> << TTPoint(28631500, 77216700),
                                   TTPoint(28620000, 77216000) >>],
                     [points |-> << TTPoint(28620000, 77216000),
                                   TTPoint(28612900, 77229500) >>] >>,
     sections |-> Null,
     guidance |-> << >>,
     summary  |-> << [lengthInMeters |-> 3100, travelTimeInSeconds |-> 420] >>]

TTEqual ==
    [legs     |-> << [points |-> << TTPoint(28631500, 77216700),
                                   TTPoint(28630000, 77230000),
                                   TTPoint(28612900, 77229500) >>] >>,
     sections |-> << >>,
     guidance |-> << >>,
     summary  |-> << [lengthInMeters |-> 2600, travelTimeInSeconds |-> 540] >>]

TTNoPoints ==
    [legs     |-> << [points |-> << >>] >>,
     sections |-> Null,
     guidance |-> << >>,
     summary  |-> << [lengthInMeters |-> 2600, travelTimeInSeconds |-> 540] >>]

TTLong ==
    [legs     |-> << [points |-> LongLeg(1, LongRoutePoints)] >>,
     sections |-> << [startPointIndex |-> 10, endPointIndex |-> 20,
                      sectionType |-> "JAMS"] >>,
     guidance |-> << >>,
     summary  |-> << [lengthInMeters |-> 2900, travelTimeInSeconds |-> 600] >>]

\* Two traffic sections that overlap on the stretch between points 2 and 3.
TTOverlap ==
    [legs     |-> << [points |-> << TTPoint(28631500, 77216700),
                                   TTPoint(28628000, 77220000),
                                   TTPoint(28620000, 77226000),
                                   TTPoint(28612900, 77229500) >>] >>,
     sections |-> << [startPointIndex |-> 1, endPointIndex |-> 3,
                      sectionType |-> "TRAFFIC"],
                     [startPointIndex |-> 2, endPointIndex |-> 3,
                      sectionType |-> "JAMS"] >>,
     guidance |-> << >>,
     summary  |-> << [lengthInMeters |-> 2700, travelTimeInSeconds |-> 660] >>]

TTNoLegs    == [legs |-> Null, sections |-> Null, guidance |-> << >>,
                summary |-> << [lengthInMeters |-> 2600, travelTimeInSeconds |-> 540] >>]

TTNoSummary == [legs |-> << [points |-> << TTPoint(28631500, 77216700) >>] >>,
                sections |-> Null, guidance |-> << >>, summary |-> << >>]

Response(kind, settle, ok, code, routes) ==
    [kind |-> kind, settle |-> settle, ok |-> ok, code |-> code, routes |-> routes]

\* The answers every provider can fail with.  The collections of answers
\* are sequences: an action takes any member.
CommonFailures ==
    << Response("networkError", "reject", FALSE, "", Null),
       Response("httpError", "resolve", FALSE, "", Null),
       Response("invalidJson", "resolve", TRUE, "Ok", InvalidJson),
       Response("noRoutes", "resolve", TRUE, "Ok", Null),
       Response("noRoutes", "resolve", TRUE, "Ok", << >>) >>

\* The sequences of 1 .. n different members of S.
DistinctSeqs(S, n) ==
    { s \in UNION { [1..m -> S] : m \in 1..n } :
        \A i, j \in DOMAIN s : i # j => s[i] # s[j] }

\* How many routes a TomTom answer holds at most.
TomTomMaxRoutes == MaxAlternatives + 1

TomTomRoutes ==
    << TTDirect, TTFaster, TTEqual, TTLong, TTNoPoints, TTNoLegs, TTNoSummary, TTOverlap >>

\* The route lists of the TomTom answers with routes, as indices of
\* TomTomRoutes: up to TomTomMaxRoutes different well-formed routes with
\* points, a route without points, two lists with a malformed route and a
\* route with overlapping traffic sections.
TomTomRouteLists ==
    DistinctSeqs(1..4, TomTomMaxRoutes) \cup { << 5 >>, << 6 >>, << 1, 7 >>, << 8 >> }

RECURSIVE TomTomRoutesAt(_)
TomTomRoutesAt(s) ==
    IF s = << >> THEN << >> ELSE << TomTomRoutes[Head(s)] >> \o TomTomRoutesAt(Tail(s))

TomTomAnswer(s) ==
    Response(IF \E k \in DOMAIN s : s[k] \in {6, 7} THEN "malformed" ELSE "ok",
             "resolve", TRUE, "Ok", TomTomRoutesAt(s))

\* The polyline "{awmDkkhvMrg@{kArjAcB" (three points from Connaught Place
\* to India Gate), as character codes.
PolylineThreePoints ==
    << 123, 97, 119, 109, 68, 107, 107, 104, 118, 77, 114, 103, 64, 123, 107, 65,
       114, 106, 65, 99, 66 >>

MapboxAnswers ==
    CommonFailures
    \o << Response("malformed", "resolve", TRUE, "Ok", << [geometry |-> Null] >>),
          Response("ok", "resolve", TRUE, "Ok", << [geometry |-> PolylineThreePoints] >>),
          Response("noPoints", "resolve", TRUE, "Ok", << [geometry |-> << >>] >>) >>

OSRMAnswers ==
    CommonFailures
    \o << Response("noRoutes", "resolve", TRUE, "NoRoute", << >>),
          Response("malformed", "resolve", TRUE, "Ok", << [coordinates |-> Null] >>),
          Response("ok", "resolve", TRUE, "Ok",
                   << [coordinates |-> << << 77216700, 28631500 >>,
                                          << 77223000, 28620000 >>,
                                          << 77229500, 28612900 >> >>] >>),
          Response("noPoints", "resolve", TRUE, "Ok", << [coordinates |-> << >>] >>) >>

\* The kinds of answer that are a failure of the provider call.
FailureKinds ==
    {"networkError", "httpError", "invalidJson", "noRoutes", "malformed", "noPoints"}

(***************************************************************************)
(* Traffic simulation (trafficSimulator.ts).  Multipliers are in           *)
(* hundredths, crowd values in ten-thousandths, reduction factors in       *)
(* hundred-thousandths; a Math.random() value is r / 1000.                 *)
(***************************************************************************)
Min(a, b) == IF a <= b THEN a ELSE b

\* getCurrentTrafficMultiplier() when new Date() has getHours() = hour and
\* getDay() = day (0 = Sunday, 6 = Saturday).
getCurrentTrafficMultiplier(hour, day) ==
    LET isWeekend     == day = 0 \/ day = 6
        weekendFactor == IF isWeekend THEN 7 ELSE 10
    IN  IF ~isWeekend /\ hour >= 8 /\ hour < 10 THEN 18 * weekendFactor
        ELSE IF ~isWeekend /\ hour >= 17 /\ hour < 20 THEN 20 * weekendFactor
        ELSE IF hour >= 23 \/ hour < 6 THEN 5 * weekendFactor
        ELSE IF hour >= 10 /\ hour < 17 THEN 12 * weekendFactor
        ELSE IF hour >= 20 /\ hour < 23 THEN 8 * weekendFactor
        ELSE 10 * weekendFactor

\* baseCrowd, in tenths.
BaseCrowd(roadType) ==
    IF roadType = "highway" THEN 3
    ELSE IF roadType = "main" THEN 6
    ELSE 8

\* The category of a crowd value.
CrowdCategory(crowdWithVariation) ==
    IF crowdWithVariation < 5000 THEN "low"
    ELSE IF crowdWithVariation < 10000 THEN "medium"
    ELSE "high"

\* calculateCrowdLevel(roadType) when getCurrentTrafficMultiplier() returns
\* trafficMultiplier and Math.random() returns r / 1000.
calculateCrowdLevel(roadType, trafficMultiplier, r) ==
    LET finalCrowd == BaseCrowd(roadType) * trafficMultiplier * 10
        variation  == (r - 500) * 4
    IN  CrowdCategory(Max(1000, Min(15000, finalCrowd + variation)))

\* reductionFactor for the draw r.
ReductionFactor(crowdLevel, r) ==
    IF crowdLevel = "low" THEN 5000 + r * 10
    ELSE IF crowdLevel = "medium" THEN 20000 + r * 15
    ELSE 30000 + r * 15

\* A variant without the 15 second minimum.
OptimizedTimeNoMinimum(waitTimeWithoutAI, reductionFactor) ==
    (waitTimeWithoutAI * (100000 - reductionFactor) + 50000) \div 100000

\* Math.round(Math.max(15, waitTimeWithoutAI * (1 - reductionFactor))):
\* Math.round rounds a half up.
OptimizedTime(waitTimeWithoutAI, reductionFactor) ==
    (Max(1500000, waitTimeWithoutAI * (100000 - reductionFactor)) + 50000) \div 100000

calculateAIOptimizedTime(waitTimeWithoutAI, crowdLevel, r) ==
    OptimizedTime(waitTimeWithoutAI, ReductionFactor(crowdLevel, r))

\* crowdLevels.filter(c => c === level).length
CountLevel(crowdLevels, level) ==
    Cardinality({ k \in DOMAIN crowdLevels : crowdLevels[k] = level })

\* A variant in which low wins a tie with medium.
DominantOfLowWinsTie(crowdLevels) ==
    IF CountLevel(crowdLevels, "high") > 0 THEN "high"
    ELSE IF CountLevel(crowdLevels, "medium") > CountLevel(crowdLevels, "low") THEN "medium"
    ELSE "low"

\* The last three statements of getDominantCrowdLevel.
DominantOf(crowdLevels) ==
    IF CountLevel(crowdLevels, "high") > 0 THEN "high"
    ELSE IF CountLevel(crowdLevels, "medium") >= CountLevel(crowdLevels, "low") THEN "medium"
    ELSE "low"

\* segments.map(seg => calculateCrowdLevel(seg.roadType)); draws[k] is the
\* Math.random() value of the k-th call, and all calls read the same hour.
SegmentCrowdLevels(segments, trafficMultiplier, draws) ==
    [k \in DOMAIN segments |->
        calculateCrowdLevel(segments[k].roadType, trafficMultiplier, draws[k])]

getDominantCrowdLevel(segments, trafficMultiplier, draws) ==
    DominantOf(SegmentCrowdLevels(segments, trafficMultiplier, draws))

(***************************************************************************)
(* Location lookup (getLocationCoordinates, searchLocation).  A name is    *)
(* the sequence of its characters, so that toLowerCase, trim and includes  *)
(* are computed on it.                                                     *)
(***************************************************************************)
\* loc.name of every location, character by character.
locationNameChars ==
    [ connaught_place |-> << "C", "o", "n", "n", "a", "u", "g", "h", "t", " ", "P", "l", "a", "c", "e" >>,
      india_gate |-> << "I", "n", "d", "i", "a", " ", "G", "a", "t", "e" >>,
      chandni_chowk |-> << "C", "h", "a", "n", "d", "n", "i", " ", "C", "h", "o", "w", "k" >>,
      karol_bagh |-> << "K", "a", "r", "o", "l", " ", "B", "a", "g", "h" >>,
      rajouri_garden |-> << "R", "a", "j", "o", "u", "r", "i", " ", "G", "a", "r", "d", "e", "n" >>,
      nehru_place |-> << "N", "e", "h", "r", "u", " ", "P", "l", "a", "c", "e" >>,
      saket |-> << "S", "a", "k", "e", "t" >>,
      dwarka |-> << "D", "w", "a", "r", "k", "a" >>,
      noida_sector_18 |-> << "N", "o", "i", "d", "a", " ", "S", "e", "c", "t", "o", "r", " ", "1", "8" >>,
      gurgaon_cyber_city |-> << "G", "u", "r", "g", "a", "o", "n", " ", "C", "y", "b", "e", "r", " ", "C", "i", "t", "y" >>,
      lajpat_nagar |-> << "L", "a", "j", "p", "a", "t", " ", "N", "a", "g", "a", "r" >>,
      hauz_khas |-> << "H", "a", "u", "z", " ", "K", "h", "a", "s" >>,
      kashmere_gate |-> << "K", "a", "s", "h", "m", "e", "r", "e", " ", "G", "a", "t", "e" >>,
      iffco_chowk |-> << "I", "F", "F", "C", "O", " ", "C", "h", "o", "w", "k" >> ]

\* The upper-case letters and their lower-case forms.
LowerCaseOf ==
    ("A" :> "a") @@ ("B" :> "b") @@ ("C" :> "c") @@ ("D" :> "d") @@ ("E" :> "e") @@ ("F" :> "f") @@ ("G" :> "g") @@ ("H" :> "h") @@ ("I" :> "i") @@ ("J" :> "j") @@ ("K" :> "k") @@ ("L" :> "l") @@ ("M" :> "m") @@
    ("N" :> "n") @@ ("O" :> "o") @@ ("P" :> "p") @@ ("Q" :> "q") @@ ("R" :> "r") @@ ("S" :> "s") @@ ("T" :> "t") @@ ("U" :> "u") @@ ("V" :> "v") @@ ("W" :> "w") @@ ("X" :> "x") @@ ("Y" :> "y") @@ ("Z" :> "z")

\* String.prototype.toLowerCase
toLowerCase(s) ==
    [i \in DOMAIN s |-> IF s[i] \in DOMAIN LowerCaseOf THEN LowerCaseOf[s[i]] ELSE s[i]]

RECURSIVE trimStart(_)
trimStart(s) == IF s # << >> /\ Head(s) = " " THEN trimStart(Tail(s)) ELSE s

RECURSIVE trimEnd(_)
trimEnd(s) ==
    IF s # << >> /\ s[Len(s)] = " " THEN trimEnd(SubSeq(s, 1, Len(s) - 1)) ELSE s

\* String.prototype.trim
trim(s) == trimEnd(trimStart(s))

\* s.includes(sub)
includes(s, sub) ==
    \E i \in 1..(Len(s) - Len(sub) + 1) : SubSeq(s, i, i + Len(sub) - 1) = sub

\* The first element of ids that satisfies Test, as a one-element sequence,
\* or the empty sequence.
RECURSIVE FirstId(_, _)
FirstId(Test(_), ids) ==
    IF ids = << >> THEN << >>
    ELSE IF Test(Head(ids)) THEN << Head(ids) >>
    ELSE FirstId(Test, Tail(ids))

\* findLocationByName(name): the id of the location as a one-element
\* sequence, or the empty sequence for null.
findLocationByName(name) ==
    LET normalized == trim(toLowerCase(name))
        Exact(id)   == toLowerCase(locationNameChars[id]) = normalized
        Partial(id) == \/ includes(toLowerCase(locationNameChars[id]), normalized)
                       \/ includes(normalized, toLowerCase(locationNameChars[id]))
        exact == FirstId(Exact, locationIds)
    IN  IF exact # << >> THEN exact ELSE FirstId(Partial, locationIds)

\* Object.keys(CITY_LOCATIONS) of getLocationCoordinates: the table holds
\* the first ten locations of the road network, under their names and
\* with their coordinates.
CityLocationKeys == SubSeq(locationIds, 1, 10)

\* Object.keys(CITY_LOCATIONS).find(...), as findLocationByName answers.
FindCityLocation(locationName) ==
    LET Matches(key) ==
            \/ includes(toLowerCase(locationNameChars[key]), toLowerCase(locationName))
            \/ includes(toLowerCase(locationName), toLowerCase(locationNameChars[key]))
    IN  FirstId(Matches, CityLocationKeys)

\* The Location of a node of the table or of the network.
NamedLocation(id) ==
    [name |-> locationNameChars[id], lat |-> locations[id].lat, lng |-> locations[id].lng]

\* The names getLocationCoordinates is called with: an exact name, one
\* that differs in case and blanks, a part of a name, a text that holds a
\* name, two places that are in neither table, and the empty text.
LocationNames ==
    { << "S", "a", "k", "e", "t" >>,
      << " ", "s", "a", "k", "e", "t", " " >>,
      << "S", "a", "k" >>,
      << "O", "l", "d", " ", "S", "a", "k", "e", "t" >>,
      << "M", "a", "n", "d", "i", " ", "H", "o", "u", "s", "e" >>,
      << "Q", "u", "t", "u", "b", " ", "M", "i", "n", "a", "r" >>,
      << >> }

\* What the fetch of searchLocation settles with: a rejection, or a
\* response with its status and what response.json() yields.  freeform and
\* poi are result.address.freeformAddress and result.poi?.name, empty when
\* missing.
SearchAnswer(settles, ok, json, hasAddress, freeform, poi, hasPosition) ==
    [settles |-> settles, ok |-> ok, json |-> json, hasAddress |-> hasAddress,
     freeform |-> freeform, poi |-> poi, hasPosition |-> hasPosition,
     lat |-> 28625000, lon |-> 77234000]

SearchAnswers ==
    << SearchAnswer("reject", FALSE, "none", FALSE, << >>, << >>, FALSE),
       SearchAnswer("response", FALSE, "none", FALSE, << >>, << >>, FALSE),
       SearchAnswer("response", TRUE, "throws", FALSE, << >>, << >>, FALSE),
       SearchAnswer("response", TRUE, "noResults", FALSE, << >>, << >>, FALSE),
       SearchAnswer("response", TRUE, "emptyResults", FALSE, << >>, << >>, FALSE),
       SearchAnswer("response", TRUE, "results", FALSE, << >>, << >>, TRUE),
       SearchAnswer("response", TRUE, "results", TRUE, << >>, << >>, FALSE),
       SearchAnswer("response", TRUE, "results", TRUE, << "M", "a", "n", "d", "i", " ", "H", "o", "u", "s", "e", ",", " ", "D", "e", "l", "h", "i" >>, << >>, TRUE),
       SearchAnswer("response", TRUE, "results", TRUE, << >>, << "M", "e", "t", "r", "o" >>, TRUE),
       SearchAnswer("response", TRUE, "results", TRUE, << >>, << >>, TRUE) >>

\* searchLocation(query) from the point its fetch settles with answer: the
\* SearchResult as a one-element sequence, or the empty sequence for null.
\* Every exception, the TypeError of a result without address or position
\* included, is caught and yields null.
searchLocationSettled(query, answer) ==
    IF answer.settles = "reject" THEN << >>
    ELSE IF ~answer.ok THEN << >>
    ELSE IF answer.json # "results" THEN << >>
    ELSE IF ~answer.hasAddress \/ ~answer.hasPosition THEN << >>
    ELSE << [lat |-> answer.lat, lng |-> answer.lon,
             address |-> IF answer.freeform # << >> THEN answer.freeform
                         ELSE IF answer.poi # << >> THEN answer.poi
                         ELSE query] >>

\* The "Random fallback (Central Delhi approx)" of getLocationCoordinates.
FallbackLocation(locationName, r1, r2) ==
    [name |-> locationName,
     lat |-> 28613900 + (r1 - 500) * 10,
     lng |-> 77209000 + (r2 - 500) * 10]

\* getLocationCoordinates(locationName) after searchLocation has returned.
AfterSearchLocation(locationName, searchResult, r1, r2) ==
    IF searchResult # << >>
    THEN [name |-> searchResult[1].address, lat |-> searchResult[1].lat,
          lng |-> searchResult[1].lng]
    ELSE FallbackLocation(locationName, r1, r2)

(***************************************************************************)
(* generateRoutes as a state machine.  One call is in flight at a time; a  *)
(* step is what runs between two awaits.                                   *)
(***************************************************************************)
VARIABLES
    config,           \* import.meta.env of the page
    pc,               \* where the call stands: "idle", the await it is
                      \* suspended on, "done" (returned) or "failed" (threw)
    start, end,       \* the arguments of the call
    searchId,         \* let searchId
    uuidCount,        \* crypto.randomUUID() calls so far: the k-th yields k
    candidateSource,  \* what the call obtained its candidate geometries from
    stages,           \* the pipeline stages started, in order, with results
    hung,             \* the fetch in flight never settles
    routeGeometries,  \* const routeGeometries
    routes,           \* const routes; the value returned when pc = "done"
    routeData,        \* the route whose database insert is in flight, if any
    thrown,           \* message of the error the call threw, "" if none
    saved,            \* rows this call has written to the database
    isLoading,        \* const [isLoading, setIsLoading] of App
    fmrPc, fmrStart, fmrEnd, fmrResult,  \* a findMultipleRoutes call
    astarStart, astarEnd, astarWeight, astarResult,  \* an astar call
    metricPath, metricDistance, metricSegments, metricThrown,  \* a path-metrics call
    trafficPc,        \* "idle" or which traffic function has returned
    now,              \* the hour and day new Date() gave the call
    trafficArgs,      \* the arguments of the call
    trafficDraws,     \* the Math.random() values of the call, in thousandths
    crowdLevels,      \* const crowdLevels of getDominantCrowdLevel
    trafficResult,    \* the value the call returned
    geoPc,            \* a getLocationCoordinates call: "idle", "awaitSearch"
                      \* (suspended on the fetch of searchLocation), "returned"
    geoName,          \* its argument locationName
    geoSearches,      \* searchLocation calls it has made
    geoAnswer,        \* what the fetch of searchLocation settled with, if it did
    geoResult,        \* the Location it returned, if it did
    loopPc,           \* an astar call step by step: "idle", "running", "returned"
    loopStart, loopEnd, loopWeight,  \* its arguments
    loopState,        \* openSet, closedSet and nodeMap between two iterations
    discovered,       \* the ids in the order nodeMap received them
    expanded,         \* the ids in the order openSet.shift() yielded them
    lowered,          \* the ids whose scores an iteration has lowered
    tieBreaks,        \* for every shift() among several lowest fScores: the
                      \* id taken and the ids that shared the lowest fScore
    loopResult        \* the value the call returned

callVars ==
    << config, pc, start, end, searchId, uuidCount, candidateSource, stages, hung,
       routeGeometries, routes, routeData, thrown, saved, isLoading >>

fmrVars == << fmrStart, fmrEnd, fmrResult >>

astarVars == << astarStart, astarEnd, astarWeight, astarResult >>

metricVars == << metricPath, metricDistance, metricSegments, metricThrown >>

searchVars == << fmrPc, fmrVars, astarVars, metricVars >>

trafficVars == << trafficPc, now, trafficArgs, trafficDraws, crowdLevels, trafficResult >>

geoVars == << geoPc, geoName, geoSearches, geoAnswer, geoResult >>

loopVars ==
    << loopPc, loopStart, loopEnd, loopWeight, loopState, discovered, expanded,
       lowered, tieBreaks, loopResult >>

vars ==
    << config, pc, start, end, searchId, uuidCount, candidateSource, stages, hung,
       routeGeometries, routes, routeData, thrown, saved, isLoading,
       fmrPc, fmrStart, fmrEnd, fmrResult,
       astarStart, astarEnd, astarWeight, astarResult,
       metricPath, metricDistance, metricSegments, metricThrown,
       trafficPc, now, trafficArgs, trafficDraws, crowdLevels, trafficResult,
       geoPc, geoName, geoSearches, geoAnswer, geoResult,
       loopPc, loopStart, loopEnd, loopWeight, loopState, discovered, expanded,
       lowered, tieBreaks, loopResult >>

Awaiting == {"awaitTomTom", "awaitMapbox", "awaitOSRM"}

NothingSaved == [searches |-> 0, routes |-> 0, junctions |-> 0]

\* !routeGeometries || routeGeometries.length === 0
NoRoutesFound(geoms) == Len(geoms) = 0

\* The Math.random() values generateJunctions draws for one geometry: a
\* pair for each junction.
DrawsFor(geometry) ==
    [1..JunctionsOf(Len(geometry.path)) -> RandomDraws \X RandomDraws]

\* The draws of the whole loop over geoms.
AllDraws(geoms) ==
    { ds \in [1..Len(geoms) -> UNION { DrawsFor(geoms[k]) : k \in DOMAIN geoms }] :
        \A k \in DOMAIN geoms : ds[k] \in DrawsFor(geoms[k]) }

\* The loop "for (i = 0; i < routeGeometries.length; i++)" from its n-th
\* iteration to its end when nothing is awaited in it (demo mode); uuid
\* is the number of UUIDs drawn before.
RECURSIVE BuildAll(_, _, _, _, _)
BuildAll(geoms, n, uuid, search, ds) ==
    IF n > Len(geoms) THEN << >>
    ELSE LET r == AssembleRoute(geoms[n], n, uuid + 1, search, ds[n])
         IN  << r >> \o BuildAll(geoms, n + 1, uuid + 1 + Len(r.junctions), search, ds)

RECURSIVE IdsUsed(_)
IdsUsed(rs) ==
    IF rs = << >> THEN 0 ELSE 1 + Len(Head(rs).junctions) + IdsUsed(Tail(rs))

\* The loop from its n-th iteration, acc the routes pushed so far, up to
\* the next await or the return: the possible outcomes, one for each value
\* of the random draws.
LoopOutcomes(env, geoms, n, acc, search, uuid) ==
    IF IsDemoMode(env)
    THEN { [pc |-> "done", routes |-> acc \o rs, routeData |-> << >>,
            uuidCount |-> uuid + IdsUsed(rs)] :
             rs \in { BuildAll(geoms, n, uuid, search, ds) : ds \in AllDraws(geoms) } }
    ELSE IF n > Len(geoms)
    THEN { [pc |-> "done", routes |-> acc, routeData |-> << >>, uuidCount |-> uuid] }
    ELSE { [pc |-> "awaitRouteInsert", routes |-> acc,
            routeData |-> << AssembleRoute(geoms[n], n, uuid + 1, search, d) >>,
            uuidCount |-> uuid + 1 + JunctionsOf(Len(geoms[n].path))] :
             d \in DrawsFor(geoms[n]) }

\* generateRoutes from the point getDetailedRouteGeometry is at position p:
\* suspended with it on a fetch, or past "await getDetailedRouteGeometry".
AfterPipeline(env, p, search, uuid) ==
    IF p.pc \in Awaiting
    THEN { [pc |-> p.pc, stages |-> p.stages, hung |-> h, routeGeometries |-> << >>,
            routes |-> << >>, routeData |-> << >>, uuidCount |-> uuid, thrown |-> ""] :
             h \in BOOLEAN }
    ELSE IF p.pc = "rejected"
    THEN { [pc |-> "failed", stages |-> p.stages, hung |-> FALSE,
            routeGeometries |-> << >>, routes |-> << >>, routeData |-> << >>,
            uuidCount |-> uuid, thrown |-> "provider error"] }
    ELSE IF NoRoutesFound(p.geoms)
    THEN { [pc |-> "failed", stages |-> p.stages, hung |-> FALSE,
            routeGeometries |-> p.geoms, routes |-> << >>, routeData |-> << >>,
            uuidCount |-> uuid, thrown |-> "No routes found between locations"] }
    ELSE { [pc |-> o.pc, stages |-> p.stages, hung |-> FALSE,
            routeGeometries |-> p.geoms, routes |-> o.routes, routeData |-> o.routeData,
            uuidCount |-> o.uuidCount, thrown |-> ""] :
             o \in LoopOutcomes(env, p.geoms, 1, << >>, search, uuid) }

\* The assignments of an outcome of AfterPipeline.
Continue(o) ==
    /\ pc' = o.pc
    /\ stages' = o.stages
    /\ hung' = o.hung
    /\ routeGeometries' = o.routeGeometries
    /\ routes' = o.routes
    /\ routeData' = o.routeData
    /\ uuidCount' = o.uuidCount
    /\ thrown' = o.thrown

\* [{ lat: start.lat, lng: start.lng }, { lat: end.lat, lng: end.lng }]
TwoPointPath(s, e) == << [lat |-> s.lat, lng |-> s.lng], [lat |-> e.lat, lng |-> e.lng] >>

\* The call of getDetailedRouteGeometry generateRoutes makes.
CallPipeline(s, e, env) == getDetailedRouteGeometry(TwoPointPath(s, e), s.name, e.name, env)

Init ==
    /\ config \in Configs
    /\ pc = "idle"
    /\ start = NoLocation
    /\ end = NoLocation
    /\ searchId = 0
    /\ uuidCount = 0
    /\ candidateSource = "none"
    /\ stages = << >>
    /\ hung = FALSE
    /\ routeGeometries = << >>
    /\ routes = << >>
    /\ routeData = << >>
    /\ thrown = ""
    /\ saved = NothingSaved
    /\ isLoading = FALSE
    /\ fmrPc = "idle"
    /\ fmrStart = Null
    /\ fmrEnd = Null
    /\ fmrResult = << >>
    /\ astarStart = Null
    /\ astarEnd = Null
    /\ astarWeight = 0
    /\ astarResult = Null
    /\ metricPath = << >>
    /\ metricDistance = 0
    /\ metricSegments = << >>
    /\ metricThrown = FALSE
    /\ trafficPc = "idle"
    /\ now = Null
    /\ trafficArgs = << >>
    /\ trafficDraws = << >>
    /\ crowdLevels = << >>
    /\ trafficResult = Null
    /\ geoPc = "idle"
    /\ geoName = << >>
    /\ geoSearches = 0
    /\ geoAnswer = << >>
    /\ geoResult = << >>
    /\ loopPc = "idle"
    /\ loopStart = ""
    /\ loopEnd = ""
    /\ loopWeight = 0
    /\ loopState = << >>
    /\ discovered = << >>
    /\ expanded = << >>
    /\ lowered = {}
    /\ tieBreaks = << >>
    /\ loopResult = << >>

\* generateRoutes(s, e) up to its first await.  searchId is the first
\* UUID; the candidates come from the two-point pipeline call, whatever
\* the locations are.
GenerateRoutes ==
    /\ pc = "idle"
    \* the form is disabled while a search is loading
    /\ ~isLoading
    /\ isLoading' = TRUE
    /\ \E s \in CallLocations : \E e \in CallLocations \ {s} :
          /\ start' = s
          /\ end' = e
          /\ searchId' = 1
          /\ saved' = NothingSaved
          /\ IF IsDemoMode(config)
             THEN /\ candidateSource' = "twoPoint"
                  /\ \E o \in AfterPipeline(config, CallPipeline(s, e, config), 1, 1) :
                        Continue(o)
             ELSE /\ pc' = "insertSearch"
                  /\ uuidCount' = 1
                  /\ candidateSource' = "none"
                  /\ UNCHANGED << stages, hung, routeGeometries, routes, routeData, thrown >>
    /\ UNCHANGED << config, searchVars, trafficVars, geoVars, loopVars >>

\* The insert into user_searches settles: with a row, with an error
\* object, or by rejecting (caught).
InsertSearchSettled ==
    /\ pc = "insertSearch"
    /\ \E outcome \in {"row", "error", "reject"} :
          LET search == IF outcome = "row" THEN 0 ELSE searchId
          IN  /\ searchId' = search
              /\ saved' = IF outcome = "row" THEN [saved EXCEPT !.searches = 1] ELSE saved
              /\ candidateSource' = "twoPoint"
              /\ \E o \in AfterPipeline(config, CallPipeline(start, end, config),
                                        search, uuidCount) :
                    Continue(o)
    /\ UNCHANGED << config, isLoading, start, end, searchVars, trafficVars, geoVars, loopVars >>

\* fetchTomTomRoute from the point its fetch settles with resp, and what
\* follows in getDetailedRouteGeometry and generateRoutes.
TomTomSettle(resp) ==
    LET tomtomRoutes == fetchTomTomRoute(resp)
        p == AfterTomTom(SettleLast(stages, resp.kind, tomtomRoutes),
                         TwoPointPath(start, end), config, tomtomRoutes)
    IN  \E o \in AfterPipeline(config, p, searchId, uuidCount) : Continue(o)

\* The fetch of fetchTomTomRoute settles.
TomTomFetchSettled ==
    /\ pc = "awaitTomTom"
    /\ ~hung
    /\ \/ \E k \in DOMAIN CommonFailures : TomTomSettle(CommonFailures[k])
       \/ \E s \in TomTomRouteLists : TomTomSettle(TomTomAnswer(s))
    /\ UNCHANGED << config, isLoading, start, end, searchId, candidateSource, saved, searchVars, trafficVars, geoVars, loopVars >>

\* The fetch of fetchMapboxRoute settles.
MapboxFetchSettled ==
    /\ pc = "awaitMapbox"
    /\ ~hung
    /\ \E k \in DOMAIN MapboxAnswers :
          LET resp == MapboxAnswers[k]
              mapboxWaypoints == fetchMapboxRoute(resp)
              p == AfterMapbox(SettleLast(stages, resp.kind, mapboxWaypoints),
                               TwoPointPath(start, end), mapboxWaypoints)
          IN  \E o \in AfterPipeline(config, p, searchId, uuidCount) : Continue(o)
    /\ UNCHANGED << config, isLoading, start, end, searchId, candidateSource, saved, searchVars, trafficVars, geoVars, loopVars >>

\* The fetch of fetchOSRMRoute settles.
OSRMFetchSettled ==
    /\ pc = "awaitOSRM"
    /\ ~hung
    /\ \E k \in DOMAIN OSRMAnswers :
          LET resp == OSRMAnswers[k]
              osrmWaypoints == fetchOSRMRoute(resp)
              p == AfterOSRM(SettleLast(stages, resp.kind, osrmWaypoints),
                             TwoPointPath(start, end), osrmWaypoints)
          IN  \E o \in AfterPipeline(config, p, searchId, uuidCount) : Continue(o)
    /\ UNCHANGED << config, isLoading, start, end, searchId, candidateSource, saved, searchVars, trafficVars, geoVars, loopVars >>

\* The assignments of an outcome of LoopOutcomes.
ContinueLoop(o) ==
    /\ pc' = o.pc
    /\ routes' = o.routes
    /\ routeData' = o.routeData
    /\ uuidCount' = o.uuidCount

\* routes.push(routeData) and the loop up to the next await or the return.
PushAndLoop ==
    \E o \in LoopOutcomes(config, routeGeometries, Len(routes) + 2,
                           Append(routes, routeData[1]), searchId, uuidCount) :
        ContinueLoop(o)

\* A variant without the try around the insert: a rejection ends the call.
RouteInsertSettledUncaught ==
    /\ pc = "awaitRouteInsert"
    /\ \E outcome \in {"resolve", "reject"} :
          IF outcome = "resolve"
          THEN /\ saved' = [saved EXCEPT !.routes = @ + 1]
               /\ thrown' = thrown
               /\ IF Len(routeData[1].junctions) > 0
                  THEN /\ pc' = "awaitJunctionInsert"
                       /\ UNCHANGED << routes, routeData, uuidCount >>
                  ELSE PushAndLoop
          ELSE /\ saved' = saved
               /\ pc' = "failed"
               /\ thrown' = "insert rejected"
               /\ routes' = << >>
               /\ UNCHANGED << routeData, uuidCount >>
    /\ UNCHANGED << config, isLoading, start, end, searchId, candidateSource, stages, hung,
                    routeGeometries, searchVars, trafficVars, geoVars, loopVars >>

\* The insert into routes settles.  A rejection is caught and the
\* junctions are not inserted.
RouteInsertSettled ==
    /\ pc = "awaitRouteInsert"
    /\ \E outcome \in {"resolve", "reject"} :
          IF outcome = "resolve"
          THEN /\ saved' = [saved EXCEPT !.routes = @ + 1]
               /\ IF Len(routeData[1].junctions) > 0
                  THEN /\ pc' = "awaitJunctionInsert"
                       /\ UNCHANGED << routes, routeData, uuidCount >>
                  ELSE PushAndLoop
          ELSE /\ saved' = saved
               /\ PushAndLoop
    /\ UNCHANGED << config, isLoading, start, end, searchId, candidateSource, stages, hung,
                    routeGeometries, thrown, searchVars, trafficVars, geoVars, loopVars >>

\* The insert into junctions settles.
JunctionInsertSettled ==
    /\ pc = "awaitJunctionInsert"
    /\ \E outcome \in {"resolve", "reject"} :
          /\ saved' = IF outcome = "resolve"
                      THEN [saved EXCEPT !.junctions = @ + Len(routeData[1].junctions)]
                      ELSE saved
          /\ PushAndLoop
    /\ UNCHANGED << config, isLoading, start, end, searchId, candidateSource, stages, hung,
                    routeGeometries, thrown, searchVars, trafficVars, geoVars, loopVars >>

\* The caller has taken the result (or the error); the next call can start.
Reset ==
    /\ pc \in {"done", "failed"}
    /\ pc' = "idle"
    /\ start' = NoLocation
    /\ end' = NoLocation
    /\ searchId' = 0
    /\ uuidCount' = 0
    /\ candidateSource' = "none"
    /\ stages' = << >>
    /\ hung' = FALSE
    /\ routeGeometries' = << >>
    /\ routes' = << >>
    /\ routeData' = << >>
    /\ thrown' = ""
    /\ saved' = NothingSaved
    /\ isLoading' = FALSE
    /\ UNCHANGED << config, searchVars, trafficVars, geoVars, loopVars >>

Next ==
    \/ GenerateRoutes
    \/ InsertSearchSettled
    \/ TomTomFetchSettled
    \/ MapboxFetchSettled
    \/ OSRMFetchSettled
    \/ RouteInsertSettled
    \/ JunctionInsertSettled
    \/ Reset

Spec == Init /\ [][Next]_vars

(***************************************************************************)
(* Path Search called on its own: findMultipleRoutes for every pair of     *)
(* ids, one of them not a node of the graph.                               *)
(***************************************************************************)
NodeIds == DOMAIN locations \cup {"unknown_place"}

\* The heuristic weights the source calls astar with, times 10: 1.0 (the
\* default), 0.6, 1.5 and 0.8.
HeuristicWeights == {10, 6, 15, 8}

FindMultipleRoutesCall ==
    /\ fmrPc = "idle"
    /\ \E s \in NodeIds, e \in NodeIds :
          /\ fmrStart' = s
          /\ fmrEnd' = e
          /\ fmrResult' = findMultipleRoutes(s, e)
    /\ fmrPc' = "returned"
    /\ UNCHANGED << callVars, trafficVars, geoVars, loopVars, astarVars, metricVars >>

FindMultipleRoutesReset ==
    /\ fmrPc = "returned"
    /\ fmrPc' = "idle"
    /\ fmrStart' = Null
    /\ fmrEnd' = Null
    /\ fmrResult' = << >>
    /\ UNCHANGED << callVars, trafficVars, geoVars, loopVars, astarVars, metricVars >>

\* A direct call of astar.
AstarCall ==
    /\ fmrPc = "idle"
    /\ \E s \in NodeIds, e \in NodeIds, w10 \in HeuristicWeights :
          /\ astarStart' = s
          /\ astarEnd' = e
          /\ astarWeight' = w10
          /\ astarResult' = astar(s, e, w10)
    /\ fmrPc' = "astarReturned"
    /\ UNCHANGED << callVars, trafficVars, geoVars, loopVars, fmrVars, metricVars >>

AstarReset ==
    /\ fmrPc = "astarReturned"
    /\ fmrPc' = "idle"
    /\ astarStart' = Null
    /\ astarEnd' = Null
    /\ astarWeight' = 0
    /\ astarResult' = Null
    /\ UNCHANGED << callVars, trafficVars, geoVars, loopVars, fmrVars, metricVars >>

\* Paths that are not search results: every id sequence of up to two ids,
\* and three-id sequences whose first two ids are joined by a road.
ArbitraryPaths ==
    {<< >>} \cup { << a >> : a \in NodeIds }
            \cup { << a, b >> : a \in NodeIds, b \in NodeIds }
            \cup { << roads[k].from, roads[k].to, c >> : k \in DOMAIN roads, c \in NodeIds }

\* calculatePathDistance(path) and getPathSegments(path), for a path that
\* findMultipleRoutes has just returned or for any other path.
PathMetricsCall ==
    /\ fmrPc \in {"idle", "returned"}
    /\ \E path \in (IF fmrPc = "returned" THEN Range(fmrResult) ELSE ArbitraryPaths) :
          /\ metricPath' = path
          /\ metricDistance' = calculatePathDistance(path)
          /\ metricSegments' = getPathSegments(path)
    \* neither function has a throw statement or a call that can throw
    /\ metricThrown' = FALSE
    /\ fmrPc' = "metricsReturned"
    /\ UNCHANGED << callVars, trafficVars, geoVars, loopVars, fmrVars, astarVars >>

PathMetricsReset ==
    /\ fmrPc = "metricsReturned"
    /\ fmrPc' = "idle"
    /\ fmrStart' = Null
    /\ fmrEnd' = Null
    /\ fmrResult' = << >>
    /\ metricPath' = << >>
    /\ metricDistance' = 0
    /\ metricSegments' = << >>
    /\ metricThrown' = FALSE
    /\ UNCHANGED << callVars, trafficVars, geoVars, loopVars, astarVars >>

NextSearch ==
    \/ FindMultipleRoutesCall
    \/ FindMultipleRoutesReset
    \/ AstarCall
    \/ AstarReset
    \/ PathMetricsCall
    \/ PathMetricsReset

SpecSearch == Init /\ [][NextSearch]_vars

(***************************************************************************)
(* Calls of the traffic simulation functions, one at a time.               *)
(***************************************************************************)
Hours == 0..23

Days == 0..6

\* Every hour of every day of the week.
Clocks == [hour : Hours, day : Days]

\* One hour of each bracket of getCurrentTrafficMultiplier on a Wednesday,
\* and 18:00 on a Saturday.
BracketClocks == [hour : {3, 7, 8, 12, 18, 21}, day : {3}] \cup [hour : {18}, day : {6}]

RoadTypes == {"highway", "main", "local"}

CrowdLevelValues == {"low", "medium", "high"}

\* The longest wait calculateAIOptimizedTime is called with.
MaxWaitTime == 244

\* The longest segment list getDominantCrowdLevel is called with.
MaxSegments == 3

\* A main road, a local road and a highway of the road network.
SegmentChoices == {roads[1], roads[3], roads[10]}

SegmentLists == UNION { [1..n -> SegmentChoices] : n \in 0..MaxSegments }

GetCurrentTrafficMultiplierCall ==
    /\ trafficPc = "idle"
    /\ \E clock \in Clocks :
          /\ now' = clock
          /\ trafficResult' = getCurrentTrafficMultiplier(clock.hour, clock.day)
    /\ trafficPc' = "multiplierReturned"
    /\ UNCHANGED << callVars, searchVars, geoVars, loopVars, trafficArgs, trafficDraws, crowdLevels >>

CalculateCrowdLevelCall ==
    /\ trafficPc = "idle"
    /\ \E clock \in Clocks, roadType \in RoadTypes, r \in RandomDraws :
          /\ now' = clock
          /\ trafficArgs' = [roadType |-> roadType]
          /\ trafficDraws' = << r >>
          /\ trafficResult' =
                calculateCrowdLevel(roadType,
                                    getCurrentTrafficMultiplier(clock.hour, clock.day), r)
    /\ trafficPc' = "crowdReturned"
    /\ UNCHANGED << callVars, searchVars, geoVars, loopVars, crowdLevels >>

CalculateAIOptimizedTimeCall ==
    /\ trafficPc = "idle"
    /\ \E waitTimeWithoutAI \in 0..MaxWaitTime, crowdLevel \in CrowdLevelValues, r \in RandomDraws :
          /\ trafficArgs' = [waitTimeWithoutAI |-> waitTimeWithoutAI,
                             crowdLevel |-> crowdLevel]
          /\ trafficDraws' = << r >>
          /\ trafficResult' = calculateAIOptimizedTime(waitTimeWithoutAI, crowdLevel, r)
    /\ trafficPc' = "optimizedReturned"
    /\ UNCHANGED << callVars, searchVars, geoVars, loopVars, now, crowdLevels >>

GetDominantCrowdLevelCall ==
    /\ trafficPc = "idle"
    /\ \E clock \in BracketClocks, segments \in SegmentLists :
          \E draws \in [DOMAIN segments -> RandomDraws] :
              LET trafficMultiplier == getCurrentTrafficMultiplier(clock.hour, clock.day)
              IN  /\ now' = clock
                  /\ trafficArgs' = [segments |-> segments]
                  /\ trafficDraws' = draws
                  /\ crowdLevels' = SegmentCrowdLevels(segments, trafficMultiplier, draws)
                  /\ trafficResult' = getDominantCrowdLevel(segments, trafficMultiplier, draws)
    /\ trafficPc' = "dominantReturned"
    /\ UNCHANGED << callVars, searchVars, geoVars, loopVars >>

TrafficReset ==
    /\ trafficPc # "idle"
    /\ trafficPc' = "idle"
    /\ now' = Null
    /\ trafficArgs' = << >>
    /\ trafficDraws' = << >>
    /\ crowdLevels' = << >>
    /\ trafficResult' = Null
    /\ UNCHANGED << callVars, searchVars, geoVars, loopVars >>

NextTraffic ==
    \/ GetCurrentTrafficMultiplierCall
    \/ CalculateCrowdLevelCall
    \/ CalculateAIOptimizedTimeCall
    \/ GetDominantCrowdLevelCall
    \/ TrafficReset

SpecTraffic == Init /\ [][NextTraffic]_vars

(***************************************************************************)
(* Calls of getLocationCoordinates, one at a time.                         *)
(***************************************************************************)
\* getLocationCoordinates(locationName) up to its return or to the fetch
\* of searchLocation.  searchLocation returns null without a fetch when the
\* TomTom key is missing or a placeholder.
GetLocationCoordinatesCall ==
    /\ geoPc = "idle"
    /\ \E locationName \in LocationNames :
          LET networkLocation == findLocationByName(locationName)
              normalized == FindCityLocation(locationName)
          IN  /\ geoName' = locationName
              /\ geoAnswer' = << >>
              /\ IF networkLocation # << >>
                 THEN /\ geoResult' = << NamedLocation(networkLocation[1]) >>
                      /\ geoSearches' = 0
                      /\ geoPc' = "returned"
                 ELSE IF normalized # << >>
                 THEN /\ geoResult' = << NamedLocation(normalized[1]) >>
                      /\ geoSearches' = 0
                      /\ geoPc' = "returned"
                 ELSE IF config.tomtomKey = "placeholder"
                 THEN /\ \E r1 \in RandomDraws, r2 \in RandomDraws :
                            geoResult' = << AfterSearchLocation(locationName, << >>, r1, r2) >>
                      /\ geoSearches' = 1
                      /\ geoPc' = "returned"
                 ELSE /\ geoResult' = << >>
                      /\ geoSearches' = 1
                      /\ geoPc' = "awaitSearch"
    /\ UNCHANGED << callVars, searchVars, trafficVars, loopVars >>

\* A variant in which a failed search ends the call without a Location.
SearchFetchSettledUncaught ==
    /\ geoPc = "awaitSearch"
    /\ \E k \in DOMAIN SearchAnswers :
          LET searchResult == searchLocationSettled(geoName, SearchAnswers[k])
          IN  /\ geoAnswer' = << SearchAnswers[k] >>
              /\ IF searchResult # << >>
                 THEN /\ geoResult' = << AfterSearchLocation(geoName, searchResult, 0, 0) >>
                      /\ geoPc' = "returned"
                 ELSE /\ geoResult' = << >>
                      /\ geoPc' = "failed"
    /\ UNCHANGED << callVars, searchVars, trafficVars, loopVars, geoName, geoSearches >>

\* The fetch of searchLocation settles; searchLocation and then
\* getLocationCoordinates return.
SearchFetchSettled ==
    /\ geoPc = "awaitSearch"
    /\ \E k \in DOMAIN SearchAnswers, r1 \in RandomDraws, r2 \in RandomDraws :
          /\ geoAnswer' = << SearchAnswers[k] >>
          /\ geoResult' = << AfterSearchLocation(geoName,
                                 searchLocationSettled(geoName, SearchAnswers[k]), r1, r2) >>
    /\ geoPc' = "returned"
    /\ UNCHANGED << callVars, searchVars, trafficVars, loopVars, geoName, geoSearches >>

GeoReset ==
    /\ geoPc = "returned"
    /\ geoPc' = "idle"
    /\ geoName' = << >>
    /\ geoSearches' = 0
    /\ geoAnswer' = << >>
    /\ geoResult' = << >>
    /\ UNCHANGED << callVars, searchVars, trafficVars, loopVars >>

NextGeo ==
    \/ GetLocationCoordinatesCall
    \/ SearchFetchSettled
    \/ GeoReset

SpecGeo == Init /\ [][NextGeo]_vars

(***************************************************************************)
(* An astar call iteration by iteration, one at a time.                    *)
(***************************************************************************)
\* The weights of HeuristicWeights, 0.0 and the one of TieWeight.
LoopWeights == HeuristicWeights \cup {0, TieWeight}

\* Position of id in the sequence s that holds it.
IndexOf(s, id) == CHOOSE i \in DOMAIN s : s[i] = id

\* openSet, closedSet and nodeMap of a search state.
LoopFields(st) ==
    [openSet |-> st.openSet, closedSet |-> st.closedSet, nodeMap |-> st.nodeMap]

\* The value an astar call returned: a path, or null (path is empty then,
\* which no returned path is).
LoopReturn(isNull, path) == [isNull |-> isNull, path |-> path]

\* astar(startId, endId, weight) up to its while loop.
AstarLoopCall ==
    /\ loopPc = "idle"
    /\ \E s \in NodeIds, e \in NodeIds, w10 \in LoopWeights :
          /\ loopStart' = s
          /\ loopEnd' = e
          /\ loopWeight' = w10
          /\ IF s \notin DOMAIN buildGraph \/ e \notin DOMAIN buildGraph
             THEN /\ loopState' = << >>
                  /\ discovered' = << >>
                  /\ loopResult' = << LoopReturn(TRUE, << >>) >>
                  /\ loopPc' = "returned"
             ELSE /\ loopState' = << LoopFields(astarInit(s, e, w10)) >>
                  /\ discovered' = << s >>
                  /\ loopResult' = << >>
                  /\ loopPc' = "running"
    /\ expanded' = << >>
    /\ lowered' = {}
    /\ tieBreaks' = << >>
    /\ UNCHANGED << callVars, searchVars, trafficVars, geoVars >>

\* One iteration of "while (openSet.length > 0)", and the return that
\* follows it when the goal was taken or the open set is exhausted.
AstarIterate ==
    /\ loopPc = "running"
    /\ LET st      == [found |-> FALSE, path |-> Null] @@ loopState[1]
           sorted  == SortByFScore(st.openSet, st.nodeMap)
           current == Head(sorted)
           lowest  == { id \in Range(sorted) :
                           st.nodeMap[id].fScore = st.nodeMap[current].fScore }
           next    == astarStep(st, loopEnd, loopWeight)
       IN  /\ expanded' = Append(expanded, current)
           /\ tieBreaks' = IF Cardinality(lowest) > 1
                           THEN Append(tieBreaks, [taken |-> current, lowest |-> lowest,
                                                   lowered |-> lowest \cap lowered])
                           ELSE tieBreaks
           /\ discovered' = discovered \o
                 SelectSeq(next.openSet, LAMBDA id : id \notin DOMAIN st.nodeMap)
           /\ lowered' = lowered \cup
                 { id \in DOMAIN st.nodeMap :
                      next.nodeMap[id].gScore < st.nodeMap[id].gScore }
           /\ loopState' = << LoopFields(next) >>
           /\ IF next.found
              THEN loopPc' = "returned" /\ loopResult' = << LoopReturn(FALSE, next.path) >>
              ELSE IF next.openSet = << >>
              THEN loopPc' = "returned" /\ loopResult' = << LoopReturn(TRUE, << >>) >>
              ELSE loopPc' = "running" /\ loopResult' = << >>
    /\ UNCHANGED << callVars, searchVars, trafficVars, geoVars,
                    loopStart, loopEnd, loopWeight >>

AstarLoopReset ==
    /\ loopPc = "returned"
    /\ loopPc' = "idle"
    /\ loopStart' = ""
    /\ loopEnd' = ""
    /\ loopWeight' = 0
    /\ loopState' = << >>
    /\ discovered' = << >>
    /\ expanded' = << >>
    /\ lowered' = {}
    /\ tieBreaks' = << >>
    /\ loopResult' = << >>
    /\ UNCHANGED << callVars, searchVars, trafficVars, geoVars >>

NextLoop ==
    \/ AstarLoopCall
    \/ AstarIterate
    \/ AstarLoopReset

SpecLoop == Init /\ [][NextLoop]_vars

(***************************************************************************)
(* Properties.                                                             *)
(***************************************************************************)
\* The README's route score, Time * 0.7 + Distance * 0.3 (minutes and
\* kilometres), times 600000: estimated_time is in milliseconds and
\* total_distance in hundredths of a kilometre.
Score(r) == 7 * r.estimated_time + 1800 * r.total_distance

\* The positions of the returned routes flagged is_optimal.
OptimalRoutes == { k \in DOMAIN routes : routes[k].is_optimal }

\* The call has passed its getDetailedRouteGeometry call.
PipelineReturned == pc \in {"awaitRouteInsert", "awaitJunctionInsert", "done"}

\* The result classes of a stage that failed.
FailedResults == {"null", "empty"}

\* C1: in every returned list the route flagged is_optimal has the least
\* score time * 0.7 + distance * 0.3 of the list, and is the first of the
\* routes that have it.
C1_OptimalHasMinimumScore ==
    pc = "done" =>
        \A k \in OptimalRoutes :
            /\ \A j \in DOMAIN routes : Score(routes[k]) <= Score(routes[j])
            /\ \A j \in 1..(k - 1) : Score(routes[j]) > Score(routes[k])

\* A returned list whose second route has a lower score than its first.
C1_Witness ==
    /\ pc = "done"
    /\ Len(routes) >= 2
    /\ Score(routes[2]) < Score(routes[1])

\* C2: every returned list holds exactly one route with is_optimal = true,
\* whatever the number of geometries.
C2_ExactlyOneOptimal ==
    pc = "done" => Cardinality(OptimalRoutes) = 1

C2_Witness ==
    /\ pc = "done"
    /\ Len(routeGeometries) = 3
    /\ Len(routes) = 3

StageOrder == << "tomtom", "mapbox", "osrm", "synthetic" >>

\* C3: the stages of a call are started in the order TomTom, Mapbox, OSRM,
\* synthetic curve, each only after the one before it has returned a
\* failure; after a stage that succeeded no stage is started.
C3_StagesInOrder ==
    /\ Len(stages) <= Len(StageOrder)
    /\ \A k \in DOMAIN stages :
          /\ stages[k].stage = StageOrder[k]
          /\ k < Len(stages) => stages[k].result \in FailedResults

\* OSRM has answered with a route after TomTom and Mapbox were asked and
\* failed.
C3_Witness ==
    /\ Len(stages) = 3
    /\ stages[1].response = "httpError"
    /\ stages[2].response = "noRoutes"
    /\ stages[3].result = "value"

\* C4: called with names whose key is in the route cache, the pipeline
\* returns the one cached path and starts no provider stage.
C4_CacheHitBypassesProviders ==
    (candidateSource = "twoPoint" /\ findCachedRouteByName(start.name, end.name) # Null) =>
        /\ stages = << >>
        /\ PipelineReturned
        /\ Len(routeGeometries) = 1
        /\ routeGeometries[1].path = findCachedRouteByName(start.name, end.name)

\* The pipeline has returned for a pair of the cache with something else
\* than the cached path.
C4_Witness ==
    /\ PipelineReturned
    /\ findCachedRouteByName(start.name, end.name) # Null
    /\ routeGeometries[1].path # findCachedRouteByName(start.name, end.name)

\* The three providers have been tried and each has failed.
AllProvidersFailed ==
    /\ Len(stages) >= 3
    /\ \A k \in 1..3 : stages[k].result \in FailedResults

\* The geometry list is the single path from first to last.
SingleGeometryBetween(geoms, first, last) ==
    /\ Len(geoms) = 1
    /\ Len(geoms[1].path) > 0
    /\ geoms[1].path[1] = first
    /\ geoms[1].path[Len(geoms[1].path)] = last

\* Paths of three coordinates through the locations of the calls.
LongerPaths ==
    { << TwoPointPath(a, b)[1], TwoPointPath(b, c)[1], TwoPointPath(b, c)[2] >> :
        a \in CallLocations, b \in CallLocations, c \in CallLocations }

\* The synthetic stage on the paths of three coordinates.
SyntheticKeepsEndpoints ==
    \A path \in LongerPaths :
        LET p == SyntheticStage(<< >>, path)
        IN  p.pc = "resolved" /\ SingleGeometryBetween(p.geoms, path[1], path[Len(path)])

\* C5: when TomTom, Mapbox and OSRM have all failed, the pipeline returns
\* exactly one geometry, from the synthetic stage, whose path is not empty,
\* begins with the first input coordinate and ends with the last.
C5_SyntheticFallback ==
    /\ SyntheticKeepsEndpoints
    /\ AllProvidersFailed =>
          /\ Len(stages) = 4
          /\ stages[4].stage = "synthetic"
          /\ PipelineReturned
          /\ SingleGeometryBetween(routeGeometries, TwoPointPath(start, end)[1],
                                   TwoPointPath(start, end)[2])

\* The three providers were asked and failed, each in another way, and the
\* call has returned.
C5_Witness ==
    /\ pc = "done"
    /\ AllProvidersFailed
    /\ stages[1].response = "networkError"
    /\ stages[2].response = "httpError"
    /\ stages[3].response = "noRoutes"

C7_HungProviderAbandoned ==
    (pc \in Awaiting /\ hung) => ENABLED Next

\* The call waits for a TomTom answer that never comes.
C7_Witness ==
    /\ pc = "awaitTomTom"
    /\ hung

\* What follows an empty geometry list: the error 'No routes found'.
EmptyResultIsReported ==
    \A env \in Configs :
        \A o \in AfterPipeline(env, Resolved(<< >>, << >>), 1, 1) :
            o.pc = "failed" /\ o.thrown = "No routes found between locations"

C9_GraphEndpointsUsePathSearch ==
    candidateSource = "twoPoint" =>
        ~(IsGraphNode(start.name) /\ IsGraphNode(end.name))

\* The two-point call has been made for two nodes of the graph between
\* which findMultipleRoutes finds a path.
C9_Witness ==
    /\ candidateSource = "twoPoint"
    /\ start.name = "Connaught Place"
    /\ end.name = "India Gate"
    /\ Len(findMultipleRoutes("connaught_place", "india_gate")) >= 1

\* C10: findMultipleRoutes returns at most 3 paths, no two of them the
\* same sequence of nodes.
C10_AtMostThreeDistinctPaths ==
    fmrPc = "returned" =>
        /\ Len(fmrResult) <= 3
        /\ \A i, j \in DOMAIN fmrResult : i # j => fmrResult[i] # fmrResult[j]

\* A call that returned two paths.
C10_Witness ==
    /\ fmrPc = "returned"
    /\ Len(fmrResult) = 2

(***************************************************************************)
(* Properties of the path search.                                          *)
(***************************************************************************)
\* One pass of Bellman-Ford over the declared roads, both directions.
RECURSIVE RelaxRoads(_, _)
RelaxRoads(dist, rs) ==
    IF rs = << >> THEN dist
    ELSE LET r  == Head(rs)
             d1 == IF dist[r.from] + r.distance < dist[r.to]
                   THEN [dist EXCEPT ![r.to] = dist[r.from] + r.distance] ELSE dist
             d2 == IF d1[r.to] + r.distance < d1[r.from]
                   THEN [d1 EXCEPT ![r.from] = d1[r.to] + r.distance] ELSE d1
         IN  RelaxRoads(d2, Tail(rs))

\* Passes until nothing changes (at most n of them).
RECURSIVE RelaxRounds(_, _)
RelaxRounds(dist, n) ==
    LET next == RelaxRoads(dist, roads)
    IN  IF n = 0 \/ next = dist THEN dist ELSE RelaxRounds(next, n - 1)

\* Length in cm of the shortest path through declared roads from every
\* location to goal; Infinity where there is none.
DistancesTo(goal) ==
    RelaxRounds([id \in DOMAIN locations |-> IF id = goal THEN 0 ELSE Infinity],
                Cardinality(DOMAIN locations))

\* The table of shortest distances, location -> location -> cm.
shortestDistances == [g \in DOMAIN locations |-> DistancesTo(g)]

shortestDistance(fromId, toId) == shortestDistances[toId][fromId]

AstarReturnedFor(w10) ==
    /\ fmrPc = "astarReturned"
    /\ astarWeight = w10
    /\ astarStart \in DOMAIN locations
    /\ astarEnd \in DOMAIN locations

\* C11: for every pair of graph nodes, astar with heuristic weight 1.0
\* returns a path whose total edge distance is the minimum over all paths
\* between the two nodes.
C11_AstarReturnsShortestPath ==
    AstarReturnedFor(10) =>
        /\ astarResult # Null
        /\ calculatePathDistance(astarResult) = shortestDistance(astarStart, astarEnd)

\* astar with weight 1.0 has returned a path for two graph nodes.
C11_Witness ==
    /\ AstarReturnedFor(10)
    /\ astarResult # Null
    /\ Len(astarResult) >= 3

\* C12: with heuristic weight at most 1.0 the heuristic never exceeds the
\* length of the shortest path to the goal through declared roads, for
\* every node and every goal of an astar call; in particular no declared
\* road is shorter than the great-circle distance between its endpoints.
C12_HeuristicAdmissible ==
    (fmrPc = "astarReturned" /\ astarWeight <= 10 /\ astarEnd \in DOMAIN locations) =>
        /\ \A n \in DOMAIN locations :
              heuristic(n, astarEnd, astarWeight) <= 10 * shortestDistance(n, astarEnd)
        /\ \A k \in DOMAIN roads :
              haversineDistance(roads[k].from, roads[k].to) <= roads[k].distance

\* An astar call with weight 1.0 whose goal is an endpoint of a road.
C12_Witness ==
    /\ AstarReturnedFor(10)
    /\ \E k \in DOMAIN roads : roads[k].to = astarEnd /\ roads[k].from = astarStart

\* a and b are the two ends of a declared road.
DeclaredRoad(a, b) ==
    \E k \in DOMAIN roads : {roads[k].from, roads[k].to} = {a, b} /\ a # b

\* path leads from startId to endId along declared roads and visits no
\* node twice.
ValidPath(path, startId, endId) ==
    /\ Len(path) >= 1
    /\ path[1] = startId
    /\ path[Len(path)] = endId
    /\ \A i, j \in DOMAIN path : i # j => path[i] # path[j]
    /\ \A i \in 1..(Len(path) - 1) : DeclaredRoad(path[i], path[i + 1])

\* C13: every path returned by astar or findMultipleRoutes begins with the
\* start node, ends with the end node, visits no node twice and follows
\* declared roads; Connaught Place to India Gate yields at least one path.
C13_ReturnedPathsAreValid ==
    /\ (fmrPc = "astarReturned" /\ astarResult # Null) =>
           ValidPath(astarResult, astarStart, astarEnd)
    /\ fmrPc = "returned" =>
           \A i \in DOMAIN fmrResult : ValidPath(fmrResult[i], fmrStart, fmrEnd)
    /\ (fmrPc = "returned" /\ fmrStart = "connaught_place" /\ fmrEnd = "india_gate") =>
           Len(fmrResult) >= 1

\* findMultipleRoutes has returned for Connaught Place to India Gate, with
\* the direct road first.
C13_Witness ==
    /\ fmrPc = "returned"
    /\ fmrStart = "connaught_place"
    /\ fmrEnd = "india_gate"
    /\ Len(fmrResult) >= 1
    /\ fmrResult[1] = << "connaught_place", "india_gate" >>

\* Both ids are graph nodes and declared roads lead from one to the other.
PathExists(startId, endId) ==
    /\ startId \in DOMAIN locations
    /\ endId \in DOMAIN locations
    /\ shortestDistance(startId, endId) < Infinity

\* C14: findMultipleRoutes returns an empty list exactly when astar with
\* weight 1.0 finds no path, which is when an endpoint is not a graph node
\* or no roads connect the two; whenever a path exists the list is not
\* empty.
C14_EmptyOnlyWithoutPath ==
    fmrPc = "returned" =>
        /\ (fmrResult = << >>) <=> (astar(fmrStart, fmrEnd, 10) = Null)
        /\ (fmrResult = << >>) <=> ~PathExists(fmrStart, fmrEnd)

\* findMultipleRoutes has returned the empty list for an id that is not a
\* graph node.
C14_Witness ==
    /\ fmrPc = "returned"
    /\ fmrResult = << >>
    /\ fmrStart \in DOMAIN locations
    /\ fmrEnd = "unknown_place"

\* Some two consecutive ids of path are not joined by a declared road.
HasMissingEdge(path) ==
    \E i \in 1..(Len(path) - 1) : ~DeclaredRoad(path[i], path[i + 1])

\* C15: calculatePathDistance and getPathSegments raise an error whenever
\* two consecutive nodes of the path have no declared road between them;
\* they never return a value computed from part of the path.
C15_MissingEdgeRaises ==
    (fmrPc = "metricsReturned" /\ HasMissingEdge(metricPath)) => metricThrown

\* Both functions have returned for a path with a missing edge, with the
\* distance and the segment of the part that has one.
C15_Witness ==
    /\ fmrPc = "metricsReturned"
    /\ HasMissingEdge(metricPath)
    /\ ~metricThrown
    /\ metricDistance > 0
    /\ Len(metricSegments) = 1

(***************************************************************************)
(* Junction wait times.                                                    *)
(***************************************************************************)
JunctionTimesOk(timeWithoutAi, timeWithAi) ==
    /\ timeWithAi <= timeWithoutAi
    /\ timeWithAi >= 15
    /\ timeWithoutAi >= 20

\* The times generateJunctions computes, for every value of Math.random()
\* to three decimals.
JunctionTimesOkForEveryDraw ==
    \A r \in 0..999 : JunctionTimesOk(TimeWithoutAi(r), TimeWithAi(TimeWithoutAi(r)))

\* C18: every junction of every route generateRoutes returns has
\* time_with_ai <= time_without_ai, time_with_ai >= 15 s and
\* time_without_ai >= 20 s, whatever the random draws.
C18_JunctionTimesBounded ==
    /\ JunctionTimesOkForEveryDraw
    /\ pc = "done" =>
          \A i \in DOMAIN routes : \A j \in DOMAIN routes[i].junctions :
              JunctionTimesOk(routes[i].junctions[j].time_without_ai,
                              routes[i].junctions[j].time_with_ai)

\* generateRoutes has returned a route with a junction whose wait without
\* AI is the shortest the draw allows.
C18_Witness ==
    /\ pc = "done"
    /\ \E i \in DOMAIN routes : \E j \in DOMAIN routes[i].junctions :
          routes[i].junctions[j].time_without_ai = 30

(***************************************************************************)
(* Properties of the traffic simulation.                                   *)
(***************************************************************************)
\* The value of the bracket an hour falls in, in tenths.
HourBracket(hour) ==
    IF hour >= 8 /\ hour < 10 THEN 18
    ELSE IF hour >= 17 /\ hour < 20 THEN 20
    ELSE IF hour >= 23 \/ hour < 6 THEN 5
    ELSE IF hour >= 10 /\ hour < 17 THEN 12
    ELSE IF hour >= 20 /\ hour < 23 THEN 8
    ELSE 10

\* The bracket value on weekdays, 0.7 times it on Saturday and Sunday, in
\* hundredths.
BracketMultiplier(hour, day) ==
    IF day = 0 \/ day = 6 THEN HourBracket(hour) * 7 ELSE HourBracket(hour) * 10

\* C16: for every hour and day the traffic multiplier is the bracket value
\* of the hour on weekdays and 0.7 times that bracket value on Saturday and
\* Sunday: 2.0 at 18:00 on a weekday, 1.4 at 18:00 on a Saturday.
C16_WeekendScalesEveryBracket ==
    trafficPc = "multiplierReturned" =>
        /\ trafficResult = BracketMultiplier(now.hour, now.day)
        /\ (now.hour = 18 /\ now.day \in 1..5) => trafficResult = 200
        /\ (now.hour = 18 /\ now.day = 6) => trafficResult = 140

\* getCurrentTrafficMultiplier has returned at 18:00 on a Saturday.
C16_Witness ==
    /\ trafficPc = "multiplierReturned"
    /\ now.hour = 18
    /\ now.day = 6

\* The categories of the crowd values from lowest to highest.
CategoryRank(category) ==
    IF category = "low" THEN 1 ELSE IF category = "medium" THEN 2 ELSE 3

\* The category of base x multiplier + noise, clamped to [0.1, 1.5].
NoisyCategory(roadType, trafficMultiplier, noise) ==
    CrowdCategory(Max(1000, Min(15000, BaseCrowd(roadType) * trafficMultiplier * 10 + noise)))

\* A fifth of the base, in ten-thousandths.
NoiseBound(roadType) == BaseCrowd(roadType) * 200

\* category can be had with a noise of at most 20% of the base: the
\* category grows with the noise, so it lies between those of the two
\* extreme noises.
ReachableWithinNoiseBound(category, roadType, trafficMultiplier) ==
    /\ CategoryRank(NoisyCategory(roadType, trafficMultiplier, -NoiseBound(roadType)))
          <= CategoryRank(category)
    /\ CategoryRank(category)
          <= CategoryRank(NoisyCategory(roadType, trafficMultiplier, NoiseBound(roadType)))

\* C17: calculateCrowdLevel returns the category of base x multiplier
\* perturbed by a noise of at most 20% of the base and clamped to
\* [0.1, 1.5]: for every road class, time and draw the result is a category
\* that such a noise can give.
C17_NoiseWithinFifthOfBase ==
    trafficPc = "crowdReturned" =>
        ReachableWithinNoiseBound(trafficResult, trafficArgs.roadType,
                                  getCurrentTrafficMultiplier(now.hour, now.day))

\* calculateCrowdLevel has returned for a highway at midday on a weekday
\* with the largest draw.
C17_Witness ==
    /\ trafficPc = "crowdReturned"
    /\ trafficArgs.roadType = "highway"
    /\ now.hour = 12
    /\ now.day = 3
    /\ trafficDraws[1] = 999

\* C19, as stated: for every input wait time, crowd level and draw,
\* calculateAIOptimizedTime returns at least 15 and at most the input; with
\* input 150, level high and reduction factor 0.35 it returns 98.
C19_AnyInput ==
    /\ OptimizedTime(150, 35000) = 98
    /\ trafficPc = "optimizedReturned" =>
          /\ trafficResult >= 15
          /\ trafficResult <= trafficArgs.waitTimeWithoutAI

\* The result is within [15, input] for every draw to three decimals.
OptimizedWithinInput(waitTimeWithoutAI) ==
    \A crowdLevel \in CrowdLevelValues : \A r \in 0..999 :
        /\ calculateAIOptimizedTime(waitTimeWithoutAI, crowdLevel, r) >= 15
        /\ calculateAIOptimizedTime(waitTimeWithoutAI, crowdLevel, r) <= waitTimeWithoutAI

OptimizedWithinInputFrom15 == \A w \in 15..MaxWaitTime : OptimizedWithinInput(w)

\* C19: for every input wait time of at least 15 seconds, every crowd level
\* and every draw, calculateAIOptimizedTime returns at least 15 and at most
\* the input; for an input below 15 it returns 15; with input 150, level
\* high and reduction factor 0.35 it returns 98.
C19_OptimizedTimeBounded ==
    /\ OptimizedTime(150, 35000) = 98
    /\ OptimizedWithinInputFrom15
    /\ trafficPc = "optimizedReturned" =>
          /\ trafficResult >= 15
          /\ trafficArgs.waitTimeWithoutAI >= 15 =>
                trafficResult <= trafficArgs.waitTimeWithoutAI
          /\ trafficArgs.waitTimeWithoutAI < 15 => trafficResult = 15

\* calculateAIOptimizedTime has returned less than its input, above the
\* minimum.
C19_Witness ==
    /\ trafficPc = "optimizedReturned"
    /\ trafficArgs.waitTimeWithoutAI = 150
    /\ trafficArgs.crowdLevel = "high"
    /\ trafficResult > 15
    /\ trafficResult < 150

\* The rule: high if any level is high, otherwise medium if there are at
\* least as many medium levels as low ones, otherwise low.
DominantRule(levels) ==
    IF \E k \in DOMAIN levels : levels[k] = "high" THEN "high"
    ELSE IF Cardinality({ k \in DOMAIN levels : levels[k] = "medium" })
               >= Cardinality({ k \in DOMAIN levels : levels[k] = "low" }) THEN "medium"
    ELSE "low"

SameAttributes(e1, e2) ==
    /\ e1.distance = e2.distance
    /\ e1.roadType = e2.roadType
    /\ e1.baseSpeed = e2.baseSpeed

\* Both directions of every declared road are edges of the graph, with the
\* attributes of the declaration.
EveryRoadBothWays ==
    \A k \in DOMAIN roads :
        LET forward  == EdgeOf(buildGraph, roads[k].from, roads[k].to)
            backward == EdgeOf(buildGraph, roads[k].to, roads[k].from)
        IN  /\ forward # << >>
            /\ backward # << >>
            /\ SameAttributes(forward[1], roads[k])
            /\ SameAttributes(backward[1], forward[1])
            /\ backward[1].from = roads[k].to
            /\ backward[1].to = roads[k].from

\* No edge of the graph joins a node to itself; distances and speeds are
\* positive.
NoSelfLoopPositiveEdges ==
    \A a \in DOMAIN buildGraph : \A i \in DOMAIN buildGraph[a] :
        /\ buildGraph[a][i].key # a
        /\ buildGraph[a][i].val.distance > 0
        /\ buildGraph[a][i].val.baseSpeed > 0

ReversePath(path) == [i \in DOMAIN path |-> path[Len(path) + 1 - i]]

\* C21: for every declared road both directions are edges of the graph
\* with equal distance, road type and base speed, no edge joins a node to
\* itself and every edge has positive distance and base speed; so the
\* metrics of a path are those of the path walked backwards.
C21_GraphIsBidirectional ==
    /\ EveryRoadBothWays
    /\ NoSelfLoopPositiveEdges
    /\ fmrPc = "metricsReturned" =>
          /\ metricDistance = calculatePathDistance(ReversePath(metricPath))
          /\ Len(metricSegments) = Len(getPathSegments(ReversePath(metricPath)))

\* The metrics of a declared road walked against its declaration.
C21_Witness ==
    /\ fmrPc = "metricsReturned"
    /\ metricPath = << "india_gate", "connaught_place" >>
    /\ metricDistance = 250000
    /\ Len(metricSegments) = 1

(***************************************************************************)
(* Persistence.                                                            *)
(***************************************************************************)
\* The route has the geometry, the metrics and the number of junctions
\* that assembling geometry gives, whatever was saved.
AssembledFrom(route, geometry, n) ==
    /\ route.path_coordinates = geometry.path
    /\ route.total_distance = ToFixed2(RouteDistance(geometry))
    /\ route.estimated_time = RouteTime(geometry)
    /\ route.crowd_level = calculateCrowdFromSegments(geometry.traffic_segments)
    /\ route.route_name = RouteName(n)
    /\ route.is_optimal = IsOptimal(n)
    /\ Len(route.junctions) = JunctionsOf(Len(geometry.path))
    /\ \A j \in DOMAIN route.junctions : route.junctions[j].route_id = route.id

\* C22: a failure of the persistence collaborator (search insert, route
\* insert or junction insert) is never propagated by generateRoutes: the
\* call throws only when no route was found, it returns one route for each
\* geometry with the geometry, metrics and junctions assembled from it
\* whether or not anything was saved, and after a failed insert the
\* remaining routes are still assembled.
C22_PersistenceFailureIgnored ==
    /\ thrown \in {"", "No routes found between locations"}
    /\ pc = "failed" => NoRoutesFound(routeGeometries)
    /\ pc = "done" =>
          /\ Len(routes) = Len(routeGeometries)
          /\ \A i \in DOMAIN routes : AssembledFrom(routes[i], routeGeometries[i], i)
    /\ pc \in {"awaitRouteInsert", "awaitJunctionInsert"} =>
          /\ Len(routes) < Len(routeGeometries)
          /\ AssembledFrom(routeData[1], routeGeometries[Len(routes) + 1], Len(routes) + 1)

\* The call has returned three routes with a junction although neither the
\* search nor any route or junction was saved.
C22_Witness ==
    /\ pc = "done"
    /\ ~IsDemoMode(config)
    /\ saved = NothingSaved
    /\ Len(routes) = 3
    /\ \E i \in DOMAIN routes : Len(routes[i].junctions) > 0

(***************************************************************************)
(* Traffic segments of a geometry.                                         *)
(***************************************************************************)
\* segments, in order, go from index 0 to index n - 1, each starting at the
\* index the one before ends at; a path of at most one point has no stretch
\* to cover.
SegmentsPartition(segments, n) ==
    IF n <= 1 THEN segments = << >>
    ELSE /\ Len(segments) >= 1
         /\ segments[1].start_index = 0
         /\ segments[Len(segments)].end_index = n - 1
         /\ \A k \in DOMAIN segments : segments[k].start_index < segments[k].end_index
         /\ \A k \in 1..(Len(segments) - 1) :
               segments[k + 1].start_index = segments[k].end_index

\* C23: the traffic segments of every geometry made from a TomTom answer
\* are, in order, contiguous and non-overlapping and cover the whole index
\* range of the path, whatever sections the answer reports.
C23_SegmentsPartitionPath ==
    \A i \in DOMAIN routeGeometries :
        routeGeometries[i].traffic_segments # Null =>
            SegmentsPartition(routeGeometries[i].traffic_segments,
                              Len(routeGeometries[i].path))

\* A geometry made from a TomTom answer with two overlapping sections.
C23_Witness ==
    /\ pc = "done"
    /\ Len(routeGeometries) = 1
    /\ routeGeometries[1].traffic_segments # Null
    /\ Len(routeGeometries[1].path) = 4
    /\ Len(routeGeometries[1].traffic_segments) = 3
    /\ routeGeometries[1].traffic_segments[3].start_index = 2

(***************************************************************************)
(* Reproducibility.                                                        *)
(***************************************************************************)
\* What of a route the caller can compare between two runs.
Observed(route) ==
    [total_distance |-> route.total_distance,
     estimated_time |-> route.estimated_time,
     crowd_level    |-> route.crowd_level,
     is_optimal     |-> route.is_optimal,
     wait_times     |-> [j \in DOMAIN route.junctions |->
                            << route.junctions[j].time_without_ai,
                               route.junctions[j].time_with_ai >>]]

ObservedAll(rs) == [i \in DOMAIN rs |-> Observed(rs[i])]

\* C24: route generation is reproducible: every run of generateRoutes on
\* the same locations, provider answers and clock, that is on the same
\* geometries, returns routes with the distance, time, crowd level, optimal
\* flag and junction wait times this run returned.
C24_Reproducible ==
    pc = "done" =>
        \A ds \in AllDraws(routeGeometries) :
            ObservedAll(BuildAll(routeGeometries, 1, 1, searchId, ds)) = ObservedAll(routes)

\* A returned route with a junction that waits 30 s without AI.
C24_Witness ==
    /\ pc = "done"
    /\ Len(routes) = 1
    /\ Len(routes[1].junctions) = 1
    /\ routes[1].junctions[1].time_without_ai = 30
    /\ routes[1].junctions[1].time_with_ai = 21

GeocodingFailed ==
    \/ geoAnswer = << >>
    \/ geoAnswer[1].settles = "reject"
    \/ ~geoAnswer[1].ok
    \/ geoAnswer[1].json # "results"

\* loc is the approximate fallback for name: the name as given, within
\* 0.005 degrees of (28.6139, 77.2090).
IsFallback(loc, name) ==
    /\ loc.name = name
    /\ Abs(loc.lat - 28613900) <= 5000
    /\ Abs(loc.lng - 77209000) <= 5000

\* C26: getLocationCoordinates resolves a name in the order road graph,
\* landmark table, geocoder, fallback: searchLocation is called only for
\* a name that matches neither the road graph nor the landmark table, a
\* name that matches one of them yields that location, and a call whose
\* geocoding fails still returns a location, the fallback one; no call
\* ends without a location.
C26_LookupOrderAndFallback ==
    LET networkLocation == findLocationByName(geoName)
        normalized == FindCityLocation(geoName)
    IN  /\ geoPc \in {"idle", "awaitSearch", "returned"}
        /\ geoSearches > 0 => networkLocation = << >> /\ normalized = << >>
        /\ geoPc = "returned" =>
              /\ Len(geoResult) = 1
              /\ IF networkLocation # << >>
                 THEN geoSearches = 0 /\ geoResult[1] = NamedLocation(networkLocation[1])
                 ELSE IF normalized # << >>
                 THEN geoSearches = 0 /\ geoResult[1] = NamedLocation(normalized[1])
                 ELSE /\ geoSearches = 1
                      /\ GeocodingFailed => IsFallback(geoResult[1], geoName)
                      /\ ~IsFallback(geoResult[1], geoName) =>
                            /\ geoResult[1].lat = geoAnswer[1].lat
                            /\ geoResult[1].lng = geoAnswer[1].lon

\* a call whose search fetch was rejected has returned the fallback
C26_Witness ==
    /\ geoPc = "returned"
    /\ geoSearches = 1
    /\ geoAnswer # << >>
    /\ geoAnswer[1].settles = "reject"
    /\ IsFallback(geoResult[1], geoName)

\* ---------------------------------------------------------------------
\* The id of ids that nodeMap received first.
FirstDiscovered(ids) ==
    CHOOSE id \in ids :
        \A other \in ids : IndexOf(discovered, id) <= IndexOf(discovered, other)

\* C27: whenever several nodes of the open set share the lowest fScore,
\* the node astar takes next is the one of them that was discovered
\* first, also when the score of one of them was lowered while it was in
\* the open set.
C27_TieBreakFifo ==
    \A k \in DOMAIN tieBreaks :
        tieBreaks[k].taken = FirstDiscovered(tieBreaks[k].lowest)

\* a node was taken among several of the lowest fScore, one of which had
\* had its score lowered
C27_Witness ==
    \E k \in DOMAIN tieBreaks : tieBreaks[k].lowered # {}

\* The same for the ties among nodes whose scores were never lowered.
C27_FifoWithoutLowering ==
    \A k \in DOMAIN tieBreaks :
        tieBreaks[k].lowered = {} =>
            tieBreaks[k].taken = FirstDiscovered(tieBreaks[k].lowest)

\* ---------------------------------------------------------------------
NoDuplicates(s) == \A i \in DOMAIN s : \A j \in DOMAIN s : s[i] = s[j] => i = j

\* C28: every astar call terminates, for every start, end and heuristic
\* weight: between two iterations no node is twice in the open set, no
\* closed node is in the open set, the closed nodes are nodes taken
\* before, no node was taken twice (so there are at most as many
\* iterations as locations), and a call runs on only while its open set
\* holds a node to take: it has returned once the open set is empty.
C28_AstarTerminates ==
    /\ NoDuplicates(expanded)
    /\ Len(expanded) <= Cardinality(DOMAIN locations)
    /\ loopState # << >> =>
          /\ NoDuplicates(loopState[1].openSet)
          /\ Range(loopState[1].openSet) \cap loopState[1].closedSet = {}
          /\ loopState[1].closedSet \subseteq Range(expanded)
    /\ loopPc = "running" => loopState[1].openSet # << >>
    /\ loopPc = "returned" => Len(loopResult) = 1

\* a call has returned after taking several nodes, one of them a node
\* whose score had been lowered in the open set
C28_Witness ==
    /\ loopPc = "returned"
    /\ Len(expanded) >= 3
    /\ lowered \cap Range(expanded) # {}

\* ---------------------------------------------------------------------
\* The longest path the junction rule is computed for on its own.
MaxJunctionPath == 151

\* A path of n different points.
LinePath(n) == [i \in 1..n |-> [lat |-> 28600000 + i, lng |-> 77200000 + i]]

\* junctions are the junctions the rule gives a route routeId of path
\* path: floor((n - 1) / 50) of them for n >= 1 points (none for a path
\* without points), the k-th at the point of index 50 * k (the first
\* point has index 0), each owned by the route.
JunctionRule(routeId, path, junctions) ==
    LET n == Len(path)
    IN  /\ Len(junctions) = IF n = 0 THEN 0 ELSE (n - 1) \div 50
        /\ \A k \in DOMAIN junctions :
              /\ 50 * k + 1 \in DOMAIN path
              /\ junctions[k].latitude = path[50 * k + 1].lat
              /\ junctions[k].longitude = path[50 * k + 1].lng
              /\ junctions[k].route_id = routeId
              /\ junctions[k].junction_name = "Junction " \o ToString(k)

\* generateJunctions follows the rule on every path of up to
\* MaxJunctionPath points.
JunctionRuleOnLines ==
    \A n \in 0..MaxJunctionPath :
        JunctionRule(7, LinePath(n),
                     generateJunctions(7, LinePath(n), [i \in 1..(n \div 50) |-> << 0, 999 >>]))

\* C29: a route whose geometry has n points has exactly floor((n - 1) / 50)
\* junctions, the k-th at path point index 50 * k and with the route's id
\* as route_id; a route built from the synthetic fallback (21 points) has
\* none.
C29_JunctionsEveryFiftyPoints ==
    /\ JunctionRuleOnLines
    /\ \A i \in DOMAIN routes :
          /\ JunctionRule(routes[i].id, routes[i].path_coordinates, routes[i].junctions)
          /\ Len(routes[i].path_coordinates) = FallbackNumPoints + 1 =>
                routes[i].junctions = << >>
    /\ \A i \in DOMAIN routeData :
          JunctionRule(routeData[i].id, routeData[i].path_coordinates, routeData[i].junctions)

\* the call has returned a route of more than 50 points with its junction,
\* or a synthetic route without one
C29_Witness ==
    /\ pc = "done"
    /\ \E i \in DOMAIN routes :
          /\ Len(routes[i].path_coordinates) > 50
          /\ Len(routes[i].junctions) = 1
          /\ routes[i].junctions[1].route_id = routes[i].id

\* ---------------------------------------------------------------------
\* C30: every route generateRoutes returns has a path_coordinates
\* sequence that is not empty, whatever stage produced its geometry and
\* whatever the provider answered.
C30_ReturnedPathsNonEmpty ==
    pc = "done" => \A i \in DOMAIN routes : routes[i].path_coordinates # << >>

\* the call has returned routes built from a TomTom answer
C30_Witness ==
    /\ pc = "done"
    /\ routes # << >>
    /\ \E k \in DOMAIN stages : stages[k].stage = "tomtom"
====
